---- MODULE Spec2Model ----
(***************************************************************************)
(* Model of the per-device ranging engine of the DW1000Ranging library     *)
(* (src/DW1000/src/DW1000Ranging.cpp): the network-device table, the       *)
(* message queue, the radio callbacks, loop() and the per-device protocol  *)
(* state machine of the TAG and of the ANCHOR.                             *)
(*                                                                         *)
(* The program state is kept in one variable per static member of          *)
(* DW1000RangingClass.  A handler of the program is an operator from a     *)
(* snapshot of that state (the record St) to the snapshot after the        *)
(* handler returned, so that the handlers a function calls compose in the  *)
(* order the code calls them; an action commits the snapshot.              *)
(***************************************************************************)
EXTENDS Integers, Sequences, FiniteSets

(* ------------------------------------------------------------------ *)
(* Program constants                                                  *)
(* ------------------------------------------------------------------ *)
POLL == 0
POLL_ACK == 1
RANGE == 2
RANGE_REPORT == 3
RANGE_FAILED == 255
BLINK == 4
RANGING_INIT == 5

TAG == 0
ANCHOR == 1

MAX_DEVICES == 4
MESSAGE_QUEUE_SIZE == 10
LEN_DATA == 120
\* timer ticks from one tick with counterForBlink = 0 to the next
BLINK_PERIOD == 21
SHORT_MAC_LEN == 9
DEFAULT_RESET_PERIOD == 200
DEFAULT_REPLY_DELAY_TIME == 7000
DEFAULT_TIMER_DELAY == 80
INACTIVITY_TIME == 1000
PROTOCOL_TIMEOUT == 2000

FC_1_BLINK == 197
FC_1 == 65
FC_2 == 140
FC_2_SHORT == 136

PROTOCOL_IDLE == 0
PROTOCOL_POLL_SENT == 1
PROTOCOL_POLL_ACK_SENT == 2
PROTOCOL_RANGE_SENT == 3
PROTOCOL_RANGE_REPORT_SENT == 4
PROTOCOL_FAILED == 5

BROADCAST == 65535
TIMEOUT_ERROR == -1

(* ------------------------------------------------------------------ *)
(* Bounds of the model                                                *)
(* ------------------------------------------------------------------ *)
\* distinct anchors that may answer a TAG in the table specification
NumAnchors == 5
\* direct calls of processDeviceMessage in a protocol specification
MaxCalls == 2
\* frames delivered by the radio in a protocol specification
MaxReceived == 3
\* advances of the millisecond clock
MaxClockSteps == 2
\* frames delivered by the radio in the queue specification
MaxEnqueues == 11
\* discovery frames dispatched in the table specification
MaxTableCalls == 6
\* advances of the millisecond clock in the reset specification
ResetClockSteps == 3
\* frames delivered by the radio in the reset specification
ResetReceived == 2
\* frames delivered by the radio in the intake specification
IntakeReceived == 2
\* advances of the millisecond clock in the pruning specification
PruneClockSteps == 45
\* calls of addNetworkDevices and removeNetworkDevices in the index
\* specification
IndexCalls == 6
\* calls of computeRangeAsymmetric in the ranging-arithmetic specification
TwrCalls == 1
\* broadcast frames of other devices that arrive in the codec specification
CodecReceived == 1
\* frames delivered by the radio in the draining specification
DrainReceived == 3
\* frames delivered by the radio in the preemption specification
PreemptReceived == 4
\* frames delivered by the radio in the timestamp specification
SentReceived == 2
\* direct calls of processDeviceMessage in the timestamp specification
SentCalls == 2
\* width in bits of a radio timestamp of the model; the radio's is 40
TimeBits == 5

(* ------------------------------------------------------------------ *)
(* Addresses, frames, devices                                         *)
(* ------------------------------------------------------------------ *)
\* short address of the k-th test anchor: 0x0101, 0x0202, ...
AnchorShort(k) == 257 * k
\* short address of the k-th tag: 0x7D00, 0x7D01
TagShort(k) == 32000 + (k - 1)
\* ranges carried by the RANGE_REPORT of the k-th anchor, in centimetres
AnchorRange(k) == IF k = 1 THEN 250 ELSE 320
RangeValues == {AnchorRange(k) : k \in 1..2}
\* timestamps read where the buffer holds no record of a RANGE
StaleTimes == {<<0, 0, 0>>, <<1, 1, 3>>}
\* values a division by zero may leave
UndefinedQuotients == {-1, 1}
\* every short address of the model; 0 is the address of no device
Addresses ==
    {0} \cup {AnchorShort(k) : k \in 1..(NumAnchors + 1)}
        \cup {TagShort(k) : k \in 1..2}

ZeroFrame ==
    [fc1 |-> 0, fc2 |-> 0, fn |-> 0, src |-> 0, dst |-> 0, eui |-> 0,
     recs |-> <<>>, range |-> 0]

generateBlinkFrame(eui, short) ==
    [ZeroFrame EXCEPT !.fc1 = FC_1_BLINK, !.eui = eui, !.src = short]

generateLongMACFrame(src, dstEui, fn) ==
    [ZeroFrame EXCEPT !.fc1 = FC_1, !.fc2 = FC_2, !.src = src, !.eui = dstEui,
                      !.fn = fn]

generateShortMACFrame(src, dst, fn) ==
    [ZeroFrame EXCEPT !.fc1 = FC_1, !.fc2 = FC_2_SHORT, !.src = src,
                      !.dst = dst, !.fn = fn]

\* int16_t detectMessageType(byte datas[]); -1 stands for the end of the
\* function reached without a return statement: the caller then reads a
\* value the function never set
detectMessageType(datas) ==
    IF datas.fc1 = FC_1_BLINK THEN BLINK
    ELSE IF datas.fc1 = FC_1 /\ datas.fc2 = FC_2 THEN datas.fn
    ELSE IF datas.fc1 = FC_1 /\ datas.fc2 = FC_2_SHORT THEN datas.fn
    ELSE -1

\* the source short address handleReceived extracts for a frame of a kind
decodeSource(datas, messageType) == datas.src

\* true when the payload bytes of the buffer are those of a short-MAC frame
\* of the kind being processed
PayloadIs(datas, messageType) ==
    /\ datas.fc1 = FC_1
    /\ datas.fc2 = FC_2_SHORT
    /\ datas.fn = messageType

NoDevice ==
    [address |-> 0, shortAddress |-> 0, index |-> 0, activity |-> 0,
     replyDelayTimeUS |-> 0, range |-> 0, RXPower |-> 0,
     protocolState |-> PROTOCOL_IDLE, expectedMsgId |-> POLL,
     sentAck |-> FALSE, receivedAck |-> FALSE, protocolFailed |-> FALSE,
     lastProtocolActivity |-> 0,
     \* the timestamps the ANCHOR reads from the radio for a received frame
     timePollReceived |-> 0, timeRangeReceived |-> 0,
     timePollSent |-> 0, timePollAckReceived |-> 0, timeRangeSent |-> 0,
     timePollAckSent |-> 0]

\* DW1000Device(address, shortAddress) and DW1000Device(address, true)
DW1000Device(address, shortAddress, time) ==
    [NoDevice EXCEPT !.address = address, !.shortAddress = shortAddress,
                     !.activity = time]

resetProtocolState(d, time) ==
    [d EXCEPT !.protocolState = PROTOCOL_IDLE, !.expectedMsgId = POLL,
              !.sentAck = FALSE, !.receivedAck = FALSE,
              !.protocolFailed = FALSE, !.lastProtocolActivity = time]

isProtocolActive(d) ==
    d.protocolState # PROTOCOL_IDLE /\ d.protocolState # PROTOCOL_FAILED

isProtocolTimedOut(d, time, timeoutMs) ==
    time - d.lastProtocolActivity > timeoutMs

handleProtocolTimeout(d, time) ==
    [d EXCEPT !.protocolState = PROTOCOL_IDLE, !.lastProtocolActivity = time]

isInactive(d, time) == time - d.activity > INACTIVITY_TIME

isAddressEqual(d, device) == d.address = device.address

isShortAddressEqual(d, device) == d.shortAddress = device.shortAddress

\* DW1000Time: a timestamp is a count of radio ticks below TIME_OVERFLOW
TIME_OVERFLOW == 2^TimeBits

\* micrometres light travels in one radio tick
DISTANCE_OF_RADIO == 4692

\* DW1000Time::wrap()
wrap(t) == IF t < 0 THEN t + TIME_OVERFLOW ELSE t

\* the quotient of two 64-bit integers, truncated towards zero; b > 0
Quot(a, b) == IF a >= 0 THEN a \div b ELSE -((-a) \div b)

\* DW1000Time::getAsMeters(), in micrometres
getAsMeters(t) == t * DISTANCE_OF_RADIO

\* round1 by a plain signed subtraction
round1_signed(d) == d.timePollAckReceived - d.timePollSent

round1(d) == wrap(d.timePollAckReceived - d.timePollSent)
reply1(d) == wrap(d.timePollAckSent - d.timePollReceived)
round2(d) == wrap(d.timeRangeReceived - d.timePollAckSent)
reply2(d) == wrap(d.timeRangeSent - d.timePollAckReceived)

TwrNumerator(d) == round1(d) * round2(d) - reply1(d) * reply2(d)
TwrDenominator(d) == round1(d) + round2(d) + reply1(d) + reply2(d)

\* void computeRangeAsymmetric(DW1000Device* myDistantDevice, DW1000Time* myTOF)
\* the quotient of a division by zero is undefined: it is the value given
computeRangeAsymmetric(d, undefined) ==
    IF TwrDenominator(d) = 0 THEN undefined
    ELSE Quot(TwrNumerator(d), TwrDenominator(d))

(* ------------------------------------------------------------------ *)
(* State                                                              *)
(* ------------------------------------------------------------------ *)
VARIABLES
    _type,                    \* TAG or ANCHOR
    _currentShortAddress,     \* this device's short address
    _networkDevices,          \* slots 0..MAX_DEVICES-1, and the memory one
                              \* slot past the array at MAX_DEVICES
    _networkDevicesNumber,
    overrun,                  \* a write past _networkDevices has happened
    _messageQueue, _queueHead, _queueTail, _queueCount,
    data,                     \* the one frame buffer of the class
    _lastSentToShortAddress,
    _lastActivity, timer, counterForBlink, _timerDelay, _replyDelayTimeUS,
    now,                      \* millis()
    rxTimestamp,              \* the radio's receive-timestamp register: the
                              \* number of the frame last received
    txFrame,                  \* the frame the radio is transmitting, ZeroFrame
                              \* once its completion was signalled
    dequeuePc,                \* the statement of dequeueMessage the service
                              \* context is at, "idle" outside the function
    countRead,                \* the value of _queueCount that _queueCount--
                              \* has loaded
    calls,                    \* handler invocations of the last operation
    sent,                     \* frames transmitted by the last operation
    counts,                   \* invocations so far of the discovery handlers,
                              \* per handler and device
    op,                       \* the last operation and its arguments
    ret,                      \* return value of the last table or queue call
    item,                     \* out-parameter of the last dequeueMessage
    fifo,                     \* items enqueueMessage accepted and
                              \* dequeueMessage has not returned yet, each
                              \* with the number of its frame
    wire,                     \* the bytes of the last broadcast frame built
                              \* or received, and whether this device built
                              \* them from its table
    parsed,                   \* what an ANCHOR has read from those bytes
    air,                      \* per destination, the kinds of the last two
                              \* ranging frames transmitted to it so far
    callsLeft, receivedLeft, clockLeft

vars ==
    <<_type, _currentShortAddress, _networkDevices, _networkDevicesNumber,
      overrun, _messageQueue, _queueHead, _queueTail, _queueCount, data,
      _lastSentToShortAddress, _lastActivity, timer, counterForBlink,
      _timerDelay, _replyDelayTimeUS, now, rxTimestamp, txFrame, dequeuePc,
      countRead, calls, sent, counts,
      op, ret, item, fifo, wire, parsed, air, callsLeft, receivedLeft, clockLeft>>

St ==
    [_type |-> _type, _currentShortAddress |-> _currentShortAddress,
     _networkDevices |-> _networkDevices,
     _networkDevicesNumber |-> _networkDevicesNumber, overrun |-> overrun,
     _messageQueue |-> _messageQueue, _queueHead |-> _queueHead,
     _queueTail |-> _queueTail, _queueCount |-> _queueCount, data |-> data,
     _lastSentToShortAddress |-> _lastSentToShortAddress,
     _lastActivity |-> _lastActivity, timer |-> timer,
     counterForBlink |-> counterForBlink, _timerDelay |-> _timerDelay,
     _replyDelayTimeUS |-> _replyDelayTimeUS, now |-> now,
     rxTimestamp |-> rxTimestamp, txFrame |-> txFrame,
     dequeuePc |-> dequeuePc, countRead |-> countRead,
     calls |-> <<>>, sent |-> <<>>, counts |-> counts, op |-> op,
     ret |-> ret, item |-> item, wire |-> wire, parsed |-> parsed,
     air |-> air]

Commit(r) ==
    /\ _type' = r._type
    /\ _currentShortAddress' = r._currentShortAddress
    /\ _networkDevices' = r._networkDevices
    /\ _networkDevicesNumber' = r._networkDevicesNumber
    /\ overrun' = r.overrun
    /\ _messageQueue' = r._messageQueue
    /\ _queueHead' = r._queueHead
    /\ _queueTail' = r._queueTail
    /\ _queueCount' = r._queueCount
    /\ data' = r.data
    /\ _lastSentToShortAddress' = r._lastSentToShortAddress
    /\ _lastActivity' = r._lastActivity
    /\ timer' = r.timer
    /\ counterForBlink' = r.counterForBlink
    /\ _timerDelay' = r._timerDelay
    /\ _replyDelayTimeUS' = r._replyDelayTimeUS
    /\ now' = r.now
    /\ rxTimestamp' = r.rxTimestamp
    /\ txFrame' = r.txFrame
    /\ dequeuePc' = r.dequeuePc
    /\ countRead' = r.countRead
    /\ calls' = r.calls
    /\ sent' = r.sent
    /\ counts' = r.counts
    /\ op' = r.op
    /\ ret' = r.ret
    /\ item' = r.item
    /\ wire' = r.wire
    /\ parsed' = r.parsed
    /\ air' = r.air

\* a MessageQueueItem; its timestamp and processed fields are written by
\* enqueueMessage and read nowhere, and are left out
ZeroItem ==
    [data |-> ZeroFrame, sourceAddress |-> 0, messageType |-> 0]

\* char data[LEN_DATA], zeroed
ZeroBytes == [k \in 0..(LEN_DATA - 1) |-> 0]

NoWire == [bytes |-> ZeroBytes, built |-> FALSE]

NoParse ==
    [kind |-> -1, me |-> 0, failed |-> FALSE, found |-> FALSE, slot |-> 0,
     top |-> 0, replyTime |-> 0, times |-> <<0, 0, 0>>]

\* the kinds of the frames of a ranging exchange
ExchangeKinds == {POLL, POLL_ACK, RANGE, RANGE_REPORT, RANGE_FAILED}

\* nothing of a ranging exchange was transmitted to any destination
NoAir ==
    [a \in Addresses \cup {BROADCAST} |-> [prev |-> -1, last |-> -1]]

NoOp ==
    [name |-> "none", frame |-> ZeroFrame, device |-> -1, messageType |-> -1,
     src |-> 0, stamp |-> 0]

\* the state of a device started in a role that has n devices in its table
StartedWith(role, short, devices, n) ==
    /\ _type = role
    /\ _currentShortAddress = short
    /\ _networkDevices = devices
    /\ _networkDevicesNumber = n
    /\ overrun = FALSE
    /\ _messageQueue = [i \in 0..(MESSAGE_QUEUE_SIZE - 1) |-> ZeroItem]
    /\ _queueHead = 0
    /\ _queueTail = 0
    /\ _queueCount = 0
    /\ data = ZeroFrame
    /\ _lastSentToShortAddress = 0
    /\ _lastActivity = 0
    /\ timer = 0
    /\ counterForBlink = 0
    /\ _timerDelay = DEFAULT_TIMER_DELAY
    /\ _replyDelayTimeUS = DEFAULT_REPLY_DELAY_TIME
    /\ now = 0
    /\ rxTimestamp = 0
    /\ txFrame = ZeroFrame
    /\ dequeuePc = "idle"
    /\ countRead = 0
    /\ calls = <<>>
    /\ sent = <<>>
    /\ counts = [h \in {"newDevice", "blinkDevice"} |->
                     [a \in Addresses |-> 0]]
    /\ op = NoOp
    /\ ret = FALSE
    /\ item = ZeroItem
    /\ fifo = <<>>
    /\ wire = NoWire
    /\ air = NoAir
    /\ parsed = NoParse

\* the state generalStart leaves for a device started in a role
Started(role, short) ==
    StartedWith(role, short, [i \in 0..MAX_DEVICES |-> NoDevice], 0)

(* ------------------------------------------------------------------ *)
(* Handlers attached by the application and the radio                 *)
(* ------------------------------------------------------------------ *)
\* (*_handleXxx)(device [, code]): all handlers are attached
Invoke(s, h, d, code) ==
    [s EXCEPT !.calls = Append(@, [handler |-> h, device |-> d.shortAddress,
                                   code |-> code, range |-> d.range]),
              !.counts = IF h \in DOMAIN s.counts
                         THEN [@ EXCEPT ![h][d.shortAddress] = @ + 1]
                         ELSE @]

noteActivity(s) == [s EXCEPT !._lastActivity = s.now]

\* void receiver(): the radio is put back in permanent receive; the call is
\* noted with the handler invocations of the operation
receiver(s) ==
    [s EXCEPT !.calls = Append(@, [handler |-> "receiver", device |-> 0,
                                   code |-> 0, range |-> 0])]

\* transmit(data): the frame was built in the class buffer `data`
transmit(s, frame) ==
    [s EXCEPT !.data = frame, !.txFrame = frame, !.sent = Append(@, frame),
              !.air = IF /\ detectMessageType(frame) \in ExchangeKinds
                         /\ frame.dst \in DOMAIN @
                      THEN [@ EXCEPT ![frame.dst] =
                                [prev |-> @.last,
                                 last |-> detectMessageType(frame)]]
                      ELSE @]

(* ------------------------------------------------------------------ *)
(* The network-device table                                           *)
(* ------------------------------------------------------------------ *)
Slots(s) == 0..(s._networkDevicesNumber - 1)

\* index of the device with a short address, -1 for nullptr
searchDistantDevice(s, shortAddress) ==
    IF \E i \in Slots(s) : s._networkDevices[i].shortAddress = shortAddress
    THEN CHOOSE i \in Slots(s) :
            /\ s._networkDevices[i].shortAddress = shortAddress
            /\ \A j \in 0..(i - 1) :
                  s._networkDevices[j].shortAddress # shortAddress
    ELSE -1

\* stores the device in slot n and counts it; slot MAX_DEVICES is the
\* memory behind the array
StoreDevice(s, device, n) ==
    [s EXCEPT !._networkDevices[n] =
                  resetProtocolState([device EXCEPT !.index = n], s.now),
              !._networkDevicesNumber = (n + 1) % 256,
              !.overrun = (n >= MAX_DEVICES),
              !.ret = TRUE]

\* the add without the search for a device of the same address
addNetworkDevicesShort_always(s, device, shortAddress) ==
    StoreDevice(s, [device EXCEPT !.range = 0], s._networkDevicesNumber)

\* boolean addNetworkDevices(DW1000Device* device, boolean shortAddress)
addNetworkDevicesShort(s, device, shortAddress) ==
    IF \E i \in Slots(s) :
          \/ isAddressEqual(s._networkDevices[i], device) /\ ~shortAddress
          \/ isShortAddressEqual(s._networkDevices[i], device) /\ shortAddress
    THEN [s EXCEPT !.ret = FALSE]
    ELSE StoreDevice(s, [device EXCEPT !.range = 0], s._networkDevicesNumber)

\* the add that appends on an ANCHOR as it does on a TAG
addNetworkDevices_append(s, device) ==
    IF \E i \in Slots(s) :
          /\ isAddressEqual(s._networkDevices[i], device)
          /\ isShortAddressEqual(s._networkDevices[i], device)
    THEN [s EXCEPT !.ret = FALSE]
    ELSE StoreDevice(s, device, s._networkDevicesNumber)

\* boolean addNetworkDevices(DW1000Device* device)
addNetworkDevices(s, device) ==
    IF \E i \in Slots(s) :
          /\ isAddressEqual(s._networkDevices[i], device)
          /\ isShortAddressEqual(s._networkDevices[i], device)
    THEN [s EXCEPT !.ret = FALSE]
    ELSE StoreDevice(s, device,
                     IF s._type = ANCHOR THEN 0 ELSE s._networkDevicesNumber)

\* the shift that copies the devices and leaves their index as it is
ShiftDown_copy(devs, i, last) ==
    [k \in DOMAIN devs |-> IF k >= i /\ k < last THEN devs[k + 1] ELSE devs[k]]

\* memcpy of the devices behind index one slot down, for i in from..to
RECURSIVE ShiftDown(_, _, _)
ShiftDown(devs, i, last) ==
    IF i >= last THEN devs
    ELSE ShiftDown([devs EXCEPT ![i] = [devs[i + 1] EXCEPT !.index = i]],
                   i + 1, last)

\* void removeNetworkDevices(int16_t index)
removeNetworkDevices(s, index) ==
    IF s._networkDevicesNumber = 1
    THEN [s EXCEPT !._networkDevicesNumber = 0]
    ELSE IF index = s._networkDevicesNumber - 1
    THEN [s EXCEPT !._networkDevicesNumber = @ - 1]
    ELSE [s EXCEPT !._networkDevices =
                       ShiftDown(@, index, s._networkDevicesNumber - 1),
                   !._networkDevicesNumber = @ - 1]

(* ------------------------------------------------------------------ *)
(* The message queue                                                  *)
(* ------------------------------------------------------------------ *)
\* the enqueue without the test for a full queue
enqueueMessage_unchecked(s, datas, sourceAddress, messageType) ==
    [s EXCEPT !._messageQueue[s._queueTail] =
                  [data |-> datas, sourceAddress |-> sourceAddress,
                   messageType |-> messageType],
              !._queueTail = (s._queueTail + 1) % MESSAGE_QUEUE_SIZE,
              !._queueCount = s._queueCount + 1,
              !.ret = TRUE]

\* boolean enqueueMessage(byte data[], byte sourceAddress[], int messageType)
enqueueMessage(s, datas, sourceAddress, messageType) ==
    IF s._queueCount >= MESSAGE_QUEUE_SIZE
    THEN [s EXCEPT !.ret = FALSE]
    ELSE [s EXCEPT !._messageQueue[s._queueTail] =
                       [data |-> datas, sourceAddress |-> sourceAddress,
                        messageType |-> messageType],
                   !._queueTail = (s._queueTail + 1) % MESSAGE_QUEUE_SIZE,
                   !._queueCount = s._queueCount + 1,
                   !.ret = TRUE]

\* the dequeue taking the newest item instead of the oldest
dequeueMessage_newest(s) ==
    IF s._queueCount = 0
    THEN [s EXCEPT !.ret = FALSE]
    ELSE [s EXCEPT !.item = s._messageQueue[(s._queueTail + MESSAGE_QUEUE_SIZE - 1)
                                                % MESSAGE_QUEUE_SIZE],
                   !._queueTail = (s._queueTail + MESSAGE_QUEUE_SIZE - 1)
                                      % MESSAGE_QUEUE_SIZE,
                   !._queueCount = s._queueCount - 1,
                   !.ret = TRUE]

\* boolean dequeueMessage(MessageQueueItem* item)
dequeueMessage(s) ==
    IF s._queueCount = 0
    THEN [s EXCEPT !.ret = FALSE]
    ELSE [s EXCEPT !.item = s._messageQueue[s._queueHead],
                   !._queueHead = (s._queueHead + 1) % MESSAGE_QUEUE_SIZE,
                   !._queueCount = s._queueCount - 1,
                   !.ret = TRUE]

\* dequeueMessage statement by statement, for a service context that the
\* radio's interrupt can preempt between two statements; _queueCount-- on
\* the volatile uint8_t is a load and a store
\* if (_queueCount == 0) return false;
dequeueTest(s) ==
    IF s._queueCount = 0
    THEN [s EXCEPT !.ret = FALSE]
    ELSE [s EXCEPT !.dequeuePc = "copy"]

\* memcpy(item, &_messageQueue[_queueHead], sizeof(MessageQueueItem));
dequeueCopy(s) ==
    [s EXCEPT !.item = s._messageQueue[s._queueHead], !.dequeuePc = "head"]

\* _queueHead = (_queueHead + 1) % MESSAGE_QUEUE_SIZE;
dequeueHead(s) ==
    [s EXCEPT !._queueHead = (s._queueHead + 1) % MESSAGE_QUEUE_SIZE,
              !.dequeuePc = "load"]

\* _queueCount--: the load
dequeueLoad(s) ==
    [s EXCEPT !.countRead = s._queueCount, !.dequeuePc = "store"]

\* _queueCount--: the store; return true;
dequeueStore(s) ==
    [s EXCEPT !._queueCount = (s.countRead + 255) % 256,
              !.ret = TRUE, !.dequeuePc = "idle"]

\* void clearMessageQueue()
clearMessageQueue(s) ==
    [s EXCEPT !._queueHead = 0, !._queueTail = 0, !._queueCount = 0]

(* ------------------------------------------------------------------ *)
(* Transmission                                                       *)
(* ------------------------------------------------------------------ *)
\* records of a broadcast POLL: short address and reply time per device
RECURSIVE PollRecords(_, _, _)
PollRecords(devs, i, n) ==
    IF i >= n THEN <<>>
    ELSE <<[addr |-> devs[i].shortAddress,
            replyTime |-> ((2 * i + 1) * DEFAULT_REPLY_DELAY_TIME) % 65536,
            timePollSent |-> 0, timePollAckReceived |-> 0,
            timeRangeSent |-> 0]>>
         \o PollRecords(devs, i + 1, n)

\* records of a broadcast RANGE: short address and the three timestamps of
\* the device
RECURSIVE RangeRecords(_, _, _)
RangeRecords(devs, i, n) ==
    IF i >= n THEN <<>>
    ELSE <<[addr |-> devs[i].shortAddress, replyTime |-> 0,
            timePollSent |-> devs[i].timePollSent,
            timePollAckReceived |-> devs[i].timePollAckReceived,
            timeRangeSent |-> devs[i].timeRangeSent]>>
         \o RangeRecords(devs, i + 1, n)

\* DW1000.setDelay(deltaTime): the time of the radio's clock at which the
\* frame will leave, later than the last reception
setDelay(s) == (s.rxTimestamp + 1) % TIME_OVERFLOW

BroadcastTimerDelay(s) ==
    DEFAULT_TIMER_DELAY +
    (((s._networkDevicesNumber * 3 * DEFAULT_REPLY_DELAY_TIME) \div 1000) % 65536)

\* void transmitBlink()
transmitBlink(s) ==
    transmit(s, generateBlinkFrame(s._currentShortAddress,
                                   s._currentShortAddress))

\* void transmitRangingInit(DW1000Device* myDistantDevice)
transmitRangingInit(s, d) ==
    transmit([s EXCEPT !._lastSentToShortAddress = d.shortAddress],
             generateLongMACFrame(s._currentShortAddress, d.address,
                                  RANGING_INIT))

\* void transmitPoll(nullptr): the broadcast POLL of the TAG
transmitPoll(s) ==
    LET n == s._networkDevicesNumber
        recs == PollRecords(s._networkDevices, 0, n)
        devs == [i \in 0..MAX_DEVICES |->
                    IF i < n
                    THEN [s._networkDevices[i] EXCEPT
                              !.replyDelayTimeUS = recs[i + 1].replyTime]
                    ELSE s._networkDevices[i]]
    IN transmit([s EXCEPT !._timerDelay = BroadcastTimerDelay(s),
                          !._networkDevices = devs,
                          !._lastSentToShortAddress = BROADCAST],
                [generateShortMACFrame(s._currentShortAddress, BROADCAST, POLL)
                     EXCEPT !.recs = recs])

\* void transmitPollAck(DW1000Device* myDistantDevice)
transmitPollAck(s, d) ==
    transmit([s EXCEPT !._lastSentToShortAddress = d.shortAddress],
             generateShortMACFrame(s._currentShortAddress, d.shortAddress,
                                   POLL_ACK))

\* void transmitRange(nullptr): the broadcast RANGE of the TAG
transmitRange(s) ==
    LET devs == [i \in DOMAIN s._networkDevices |->
                    IF i < s._networkDevicesNumber
                    THEN [s._networkDevices[i] EXCEPT
                              !.timeRangeSent = setDelay(s)]
                    ELSE s._networkDevices[i]]
    IN transmit([s EXCEPT !._timerDelay = BroadcastTimerDelay(s),
                          !._networkDevices = devs,
                          !._lastSentToShortAddress = BROADCAST],
                [generateShortMACFrame(s._currentShortAddress, BROADCAST,
                                       RANGE)
                     EXCEPT !.recs = RangeRecords(devs, 0,
                                                  s._networkDevicesNumber)])

\* void transmitRangeReport(DW1000Device* myDistantDevice)
transmitRangeReport(s, d) ==
    transmit([s EXCEPT !._lastSentToShortAddress = d.shortAddress],
             [generateShortMACFrame(s._currentShortAddress, d.shortAddress,
                                    RANGE_REPORT)
                  EXCEPT !.range = d.range])

\* the answer to a failed exchange that carries the stored range as a report
transmitRangeFailed_report(s, d) ==
    transmit([s EXCEPT !._lastSentToShortAddress = d.shortAddress],
             [generateShortMACFrame(s._currentShortAddress, d.shortAddress,
                                    RANGE_REPORT)
                  EXCEPT !.range = d.range])

\* void transmitRangeFailed(DW1000Device* myDistantDevice)
transmitRangeFailed(s, d) ==
    transmit([s EXCEPT !._lastSentToShortAddress = d.shortAddress],
             generateShortMACFrame(s._currentShortAddress, d.shortAddress,
                                   RANGE_FAILED))

(* ------------------------------------------------------------------ *)
(* Per-device message processing                                      *)
(* ------------------------------------------------------------------ *)
\* What the class buffer `data` yields when it is read as the payload of a
\* message of a kind.  The bytes are those of the frame last received or
\* built for transmission; when that frame is of another shape the bytes at
\* the payload offsets are not payload fields, and env gives what they
\* happen to hold.
\* env.forMe: a record with this device's short address is found;
\* env.replyTime: the two bytes behind that record's address;
\* env.range: the float at the range offset of a RANGE_REPORT;
\* env.times: the three timestamps behind that record's address;
\* env.quotient: what a division by zero leaves in the time of flight.
RecordForMe(s, messageType, env) ==
    IF PayloadIs(s.data, messageType)
    THEN \E k \in 1..Len(s.data.recs) :
            s.data.recs[k].addr = s._currentShortAddress
    ELSE env.forMe

ReplyTimeForMe(s, messageType, env) ==
    IF PayloadIs(s.data, messageType)
    THEN LET k == CHOOSE k \in 1..Len(s.data.recs) :
                     /\ s.data.recs[k].addr = s._currentShortAddress
                     /\ \A j \in 1..(k - 1) :
                           s.data.recs[j].addr # s._currentShortAddress
         IN s.data.recs[k].replyTime
    ELSE env.replyTime

\* the three timestamps of the record of a RANGE that is for this device
TimesForMe(s, env) ==
    IF PayloadIs(s.data, RANGE)
    THEN LET k == CHOOSE k \in 1..Len(s.data.recs) :
                     /\ s.data.recs[k].addr = s._currentShortAddress
                     /\ \A j \in 1..(k - 1) :
                           s.data.recs[j].addr # s._currentShortAddress
         IN <<s.data.recs[k].timePollSent, s.data.recs[k].timePollAckReceived,
              s.data.recs[k].timeRangeSent>>
    ELSE env.times

ReportedRange(s, env) ==
    IF PayloadIs(s.data, RANGE_REPORT) THEN s.data.range ELSE env.range

\* the values env can take for the buffer in s and the kind processed
Envs(s, messageType) ==
    LET stale == ~PayloadIs(s.data, messageType)
        records == s._type = ANCHOR /\ messageType \in {POLL, RANGE}
    IN [forMe : IF records /\ stale THEN BOOLEAN ELSE {FALSE},
        replyTime : IF records /\ stale /\ messageType = POLL
                    THEN {DEFAULT_REPLY_DELAY_TIME, 3 * DEFAULT_REPLY_DELAY_TIME}
                    ELSE {0},
        times : IF records /\ stale /\ messageType = RANGE
                THEN StaleTimes ELSE {<<0, 0, 0>>},
        quotient : IF records /\ messageType = RANGE
                   THEN UndefinedQuotients ELSE {0},
        range : IF s._type = TAG /\ messageType = RANGE_REPORT /\ stale
                THEN RangeValues ELSE {0}]

\* handleDeviceProtocolState, _type == ANCHOR
anchorProtocolState(s, i, messageType, env) ==
    LET d0 == s._networkDevices[i]
        unexpected == messageType # d0.expectedMsgId
        s1 == IF unexpected
              THEN Invoke([s EXCEPT !._networkDevices[i].protocolFailed = TRUE],
                          "protocolError", d0, messageType)
              ELSE s
        d1 == s1._networkDevices[i]
    IN IF messageType = POLL /\ RecordForMe(s1, POLL, env)
       THEN LET d2 == [d1 EXCEPT !.protocolFailed = FALSE,
                                 !.protocolState = PROTOCOL_POLL_SENT,
                                 !.timePollReceived = s.rxTimestamp,
                                 !.activity = s.now,
                                 !.lastProtocolActivity = s.now,
                                 !.expectedMsgId = RANGE]
            IN noteActivity(transmitPollAck(
                   [s1 EXCEPT !._replyDelayTimeUS = ReplyTimeForMe(s1, POLL, env),
                              !._networkDevices[i] = d2], d2))
       ELSE IF messageType = RANGE /\ RecordForMe(s1, RANGE, env)
       THEN LET d2 == [d1 EXCEPT !.timeRangeReceived = s.rxTimestamp,
                                 !.activity = s.now,
                                 !.lastProtocolActivity = s.now,
                                 !.expectedMsgId = POLL,
                                 !.protocolState = PROTOCOL_RANGE_SENT]
                s2 == noteActivity(s1)
            IN IF ~d2.protocolFailed
               THEN LET times == TimesForMe(s1, env)
                        dt == [d2 EXCEPT !.timePollSent = times[1],
                                         !.timePollAckReceived = times[2],
                                         !.timeRangeSent = times[3]]
                        myTOF == computeRangeAsymmetric(dt, env.quotient)
                        d3 == [dt EXCEPT !.range = getAsMeters(myTOF),
                                         !.protocolState =
                                             PROTOCOL_RANGE_REPORT_SENT]
                    IN Invoke(transmitRangeReport(
                                  [s2 EXCEPT !._networkDevices[i] = d3], d3),
                              "rangeComplete", d3, 0)
               ELSE LET d3 == [d2 EXCEPT !.protocolState = PROTOCOL_FAILED]
                    IN transmitRangeFailed(
                           [s2 EXCEPT !._networkDevices[i] = d3], d3)
       ELSE s1

\* the RANGE_REPORT branch without the call of the range-complete handler
tagRangeReport_silent(s, i, env) ==
    [s EXCEPT !._networkDevices[i] =
                  [@ EXCEPT !.range = ReportedRange(s, env),
                            !.activity = s.now,
                            !.lastProtocolActivity = s.now,
                            !.protocolState = PROTOCOL_IDLE]]

\* handleDeviceProtocolState, _type == TAG, messageType == RANGE_REPORT
tagRangeReport(s, i, env) ==
    LET d1 == [s._networkDevices[i] EXCEPT
                   !.range = ReportedRange(s, env),
                   !.activity = s.now,
                   !.lastProtocolActivity = s.now,
                   !.protocolState = PROTOCOL_IDLE]
    IN Invoke([s EXCEPT !._networkDevices[i] = d1], "rangeComplete", d1, 0)

\* the unexpected-message branch that also puts the device in FAILED
tagUnexpected_failed(s, i, messageType) ==
    Invoke([s EXCEPT !._networkDevices[i].protocolFailed = TRUE,
                     !._networkDevices[i].protocolState = PROTOCOL_FAILED,
                     !._networkDevices[i].expectedMsgId = POLL_ACK],
           "protocolError", s._networkDevices[i], messageType)

\* handleDeviceProtocolState, _type == TAG, messageType is not the expected
\* message of the device
tagUnexpected(s, i, messageType) ==
    Invoke([s EXCEPT !._networkDevices[i].protocolFailed = TRUE,
                     !._networkDevices[i].expectedMsgId = POLL_ACK],
           "protocolError", s._networkDevices[i], messageType)

\* handleDeviceProtocolState, _type == TAG
tagProtocolState(s, i, messageType, env) ==
    LET d0 == s._networkDevices[i]
    IN IF messageType # d0.expectedMsgId
       THEN tagUnexpected(s, i, messageType)
       ELSE IF messageType = POLL_ACK
       THEN LET d1 == [d0 EXCEPT !.timePollAckReceived = s.rxTimestamp,
                                 !.activity = s.now,
                                 !.lastProtocolActivity = s.now,
                                 !.protocolState = PROTOCOL_POLL_ACK_SENT]
            IN IF d1.index = s._networkDevicesNumber - 1
               THEN transmitRange(
                        [s EXCEPT !._networkDevices[i] =
                                      [d1 EXCEPT !.expectedMsgId = RANGE_REPORT]])
               ELSE [s EXCEPT !._networkDevices[i] = d1]
       ELSE IF messageType = RANGE_REPORT THEN tagRangeReport(s, i, env)
       ELSE IF messageType = RANGE_FAILED
       THEN Invoke([s EXCEPT !._networkDevices[i].protocolFailed = TRUE,
                             !._networkDevices[i].protocolState = PROTOCOL_FAILED,
                             !._networkDevices[i].expectedMsgId = POLL_ACK],
                   "protocolError", d0, messageType)
       ELSE s

\* one protocol state and failed flag for the whole table: every device
\* takes those of the device that was processed
handleDeviceProtocolState_shared(s, i, messageType, env) ==
    LET r == IF s._type = ANCHOR
             THEN anchorProtocolState(s, i, messageType, env)
             ELSE tagProtocolState(s, i, messageType, env)
    IN [r EXCEPT !._networkDevices =
           [k \in DOMAIN r._networkDevices |->
               IF k < r._networkDevicesNumber
               THEN [r._networkDevices[k] EXCEPT
                         !.protocolState = r._networkDevices[i].protocolState,
                         !.protocolFailed = r._networkDevices[i].protocolFailed]
               ELSE r._networkDevices[k]]]

\* void handleDeviceProtocolState(DW1000Device* device, int messageType)
handleDeviceProtocolState(s, i, messageType, env) ==
    IF s._type = ANCHOR THEN anchorProtocolState(s, i, messageType, env)
    ELSE IF s._type = TAG THEN tagProtocolState(s, i, messageType, env)
    ELSE s

\* void processDeviceMessage(DW1000Device* device, byte data[], int messageType)
\* device is the slot of the device, -1 for nullptr; datas is the parameter
processDeviceMessage(s, device, datas, messageType, env) ==
    IF messageType = BLINK /\ s._type = ANCHOR
    THEN LET myTag == DW1000Device(datas.eui, datas.src, s.now)
             s1 == addNetworkDevices(s, myTag)
         IN IF s1.ret
            THEN noteActivity(transmitRangingInit(
                     Invoke(s1, "blinkDevice", myTag, 0), myTag))
            ELSE s1
    ELSE IF messageType = RANGING_INIT /\ s._type = TAG
    THEN LET myAnchor == DW1000Device(0, datas.src, s.now)
             s1 == addNetworkDevicesShort(s, myAnchor, TRUE)
         IN noteActivity(IF s1.ret
                         THEN Invoke(s1, "newDevice", myAnchor, 0)
                         ELSE s1)
    ELSE IF device = -1 THEN s
    ELSE handleDeviceProtocolState(s, device, messageType, env)

(* ------------------------------------------------------------------ *)
(* The bytes of the broadcast frames                                  *)
(* ------------------------------------------------------------------ *)
\* byte k of the little-endian value v
RECURSIVE ByteAt(_, _)
ByteAt(v, k) == IF k = 0 THEN v % 256 ELSE ByteAt(v \div 256, k - 1)

\* memcpy(buf + at, &v, n), and DW1000Time::getTimestamp(buf + at) for n = 5
Store(buf, at, v, n) ==
    [k \in DOMAIN buf |->
        IF k >= at /\ k < at + n THEN ByteAt(v, k - at) ELSE buf[k]]

\* the byte at offset k; past is what the memory behind the buffer holds
Read(buf, k, past) == IF k \in DOMAIN buf THEN buf[k] ELSE past

\* memcpy(&v, buf + at, n), and DW1000Time::setTimestamp(buf + at) for n = 5
RECURSIVE Load(_, _, _, _)
Load(buf, at, n, past) ==
    IF n = 0 THEN 0
    ELSE Read(buf, at, past) + 256 * Load(buf, at + 1, n - 1, past)

\* transmitPoll(nullptr): the loop that writes the record of device i
RECURSIVE PollBytes(_, _, _, _)
PollBytes(buf, devs, i, n) ==
    IF i >= n THEN buf
    ELSE PollBytes(
             Store(Store(buf, SHORT_MAC_LEN + 2 + 4 * i, devs[i].shortAddress, 2),
                   SHORT_MAC_LEN + 2 + 2 + 4 * i,
                   ((2 * i + 1) * DEFAULT_REPLY_DELAY_TIME) % 65536, 2),
             devs, i + 1, n)

\* transmitPoll(nullptr): the bytes of `data` that follow the MAC header
transmitPollBytes(s, buf) ==
    PollBytes([buf EXCEPT ![SHORT_MAC_LEN] = POLL,
                          ![SHORT_MAC_LEN + 1] = s._networkDevicesNumber],
              s._networkDevices, 0, s._networkDevicesNumber)

\* transmitRange(nullptr): the loop that writes the record of device i
RECURSIVE RangeBytes(_, _, _, _)
RangeBytes(buf, devs, i, n) ==
    IF i >= n THEN buf
    ELSE RangeBytes(
             Store(Store(Store(Store(buf, SHORT_MAC_LEN + 2 + 17 * i,
                                     devs[i].shortAddress, 2),
                               SHORT_MAC_LEN + 4 + 17 * i,
                               devs[i].timePollSent, 5),
                         SHORT_MAC_LEN + 9 + 17 * i,
                         devs[i].timePollAckReceived, 5),
                   SHORT_MAC_LEN + 14 + 17 * i, devs[i].timeRangeSent, 5),
             devs, i + 1, n)

\* transmitRange(nullptr): the bytes of `data` that follow the MAC header;
\* s is the state in which every device has its timeRangeSent
transmitRangeBytes(s, buf) ==
    RangeBytes([buf EXCEPT ![SHORT_MAC_LEN] = RANGE,
                           ![SHORT_MAC_LEN + 1] = s._networkDevicesNumber],
               s._networkDevices, 0, s._networkDevicesNumber)

\* the POLL branch of the ANCHOR: the for loop over the records, which ends
\* at the first record i < count whose address is me, or after the last;
\* top is the highest offset of `data` that is read
PollScan(buf, me, past) ==
    LET count == Read(buf, SHORT_MAC_LEN + 1, past)
        mine(i) == Load(buf, SHORT_MAC_LEN + 2 + i * 4, 2, past) = me
        hits == {i \in 0..(count - 1) : mine(i)}
        slot == IF hits = {} THEN count
                ELSE CHOOSE i \in hits : \A j \in hits : i <= j
    IN [found |-> hits # {}, slot |-> slot,
        top |-> IF hits = {}
                THEN IF count = 0 THEN SHORT_MAC_LEN + 1
                     ELSE SHORT_MAC_LEN + 2 + (count - 1) * 4 + 1
                ELSE SHORT_MAC_LEN + 2 + slot * 4 + 2 + 1]

\* the RANGE branch of the ANCHOR with records of 16 bytes
RangeScan_16(buf, me, past, failed) ==
    LET count == Read(buf, SHORT_MAC_LEN + 1, past)
        mine(i) == Load(buf, SHORT_MAC_LEN + 2 + i * 16, 2, past) = me
        hits == {i \in 0..(count - 1) : mine(i)}
        slot == IF hits = {} THEN count
                ELSE CHOOSE i \in hits : \A j \in hits : i <= j
    IN [found |-> hits # {}, slot |-> slot,
        top |-> IF hits = {}
                THEN IF count = 0 THEN SHORT_MAC_LEN + 1
                     ELSE SHORT_MAC_LEN + 2 + (count - 1) * 16 + 1
                ELSE IF failed THEN SHORT_MAC_LEN + 2 + slot * 16 + 1
                ELSE SHORT_MAC_LEN + 14 + 16 * slot + 4,
        at |-> SHORT_MAC_LEN + 2 + slot * 16]

\* the RANGE branch of the ANCHOR: the for loop over the records, which ends
\* at the first record i < count whose address is me, or after the last;
\* failed is device->getProtocolFailed(); top is the highest offset of `data`
\* that is read and at the offset of the record found
RangeScan(buf, me, past, failed) ==
    LET count == Read(buf, SHORT_MAC_LEN + 1, past)
        mine(i) == Load(buf, SHORT_MAC_LEN + 2 + i * 17, 2, past) = me
        hits == {i \in 0..(count - 1) : mine(i)}
        slot == IF hits = {} THEN count
                ELSE CHOOSE i \in hits : \A j \in hits : i <= j
    IN [found |-> hits # {}, slot |-> slot,
        top |-> IF hits = {}
                THEN IF count = 0 THEN SHORT_MAC_LEN + 1
                     ELSE SHORT_MAC_LEN + 2 + (count - 1) * 17 + 1
                ELSE IF failed THEN SHORT_MAC_LEN + 2 + slot * 17 + 1
                ELSE SHORT_MAC_LEN + 14 + 17 * slot + 4,
        at |-> SHORT_MAC_LEN + 2 + slot * 17]

\* what the ANCHOR with short address me takes from a POLL in buf
parsePoll(buf, me, past) ==
    LET r == PollScan(buf, me, past)
    IN [kind |-> POLL, me |-> me, failed |-> FALSE, found |-> r.found,
        slot |-> r.slot, top |-> r.top,
        replyTime |-> IF r.found
                      THEN Load(buf, SHORT_MAC_LEN + 2 + r.slot * 4 + 2, 2, past)
                      ELSE 0,
        times |-> <<0, 0, 0>>]

\* what the ANCHOR with short address me takes from a RANGE in buf; of a
\* record that ends behind the buffer it takes what the memory there holds
parseRange(buf, me, past, failed) ==
    LET r == RangeScan(buf, me, past, failed)
    IN [kind |-> RANGE, me |-> me, failed |-> failed, found |-> r.found,
        slot |-> r.slot, top |-> r.top, replyTime |-> 0,
        times |-> IF r.found /\ ~failed /\ r.top \notin DOMAIN buf
                  THEN <<past, past, past>>
                  ELSE IF r.found /\ ~failed
                  THEN <<Load(buf, r.at + 2, 5, past),
                         Load(buf, r.at + 7, 5, past),
                         Load(buf, r.at + 12, 5, past)>>
                  ELSE <<0, 0, 0>>]

(* ------------------------------------------------------------------ *)
(* The radio callback and loop()                                      *)
(* ------------------------------------------------------------------ *)
\* void handleReceived(): frame is what DW1000.getData copies into `data`;
\* undef is the value read as the result of detectMessageType when the
\* function returned none
handleReceived(s, frame, undef) ==
    LET s1 == [s EXCEPT !.data = frame]
        messageType == IF detectMessageType(s1.data) = -1
                       THEN undef
                       ELSE detectMessageType(s1.data)
    IN enqueueMessage(s1, s1.data, decodeSource(s1.data, messageType),
                      messageType)

\* void handleSent(): stamp is what DW1000.getTransmitTimestamp reads; undef
\* is the value read as the result of detectMessageType when the function
\* returned none
handleSent(s, stamp, undef) ==
    LET messageType == IF detectMessageType(s.data) = -1
                       THEN undef
                       ELSE detectMessageType(s.data)
        i == searchDistantDevice(s, s._lastSentToShortAddress)
        all(field) ==
            [k \in DOMAIN s._networkDevices |->
                IF k < s._networkDevicesNumber
                THEN [s._networkDevices[k] EXCEPT ![field] = stamp,
                                                  !.sentAck = TRUE]
                ELSE s._networkDevices[k]]
        one(field) ==
            IF i = -1 THEN s._networkDevices
            ELSE [s._networkDevices EXCEPT
                      ![i] = [@ EXCEPT ![field] = stamp, !.sentAck = TRUE]]
        stamped(field) ==
            [s EXCEPT !._networkDevices =
                          IF s._lastSentToShortAddress = BROADCAST
                          THEN all(field) ELSE one(field)]
    IN IF messageType # POLL_ACK /\ messageType # POLL /\ messageType # RANGE
       THEN s
       ELSE IF s._type = ANCHOR
       THEN IF messageType = POLL_ACK
            THEN [s EXCEPT !._networkDevices = one("timePollAckSent")]
            ELSE s
       ELSE IF s._type = TAG
       THEN IF messageType = POLL THEN stamped("timePollSent")
            ELSE IF messageType = RANGE THEN stamped("timeRangeSent")
            ELSE s
       ELSE s

\* the reset that leaves the expected messages and the radio as they are
resetInactive_idle(s) == noteActivity(s)

\* void resetInactive()
resetInactive(s) ==
    noteActivity(
        IF s._type = ANCHOR
        THEN receiver(
                 [s EXCEPT !._networkDevices =
                     [i \in 0..MAX_DEVICES |->
                         IF i < s._networkDevicesNumber
                         THEN [s._networkDevices[i] EXCEPT
                                   !.expectedMsgId = POLL]
                         ELSE s._networkDevices[i]]])
        ELSE s)

\* boolean isAnyDeviceActive()
isAnyDeviceActive(s) ==
    \E i \in Slots(s) : isProtocolActive(s._networkDevices[i])

\* the reset that does not ask whether a device has an active protocol
checkForReset_always(s) ==
    IF s.now - s._lastActivity > DEFAULT_RESET_PERIOD
    THEN resetInactive(s)
    ELSE s

\* void checkForReset()
checkForReset(s) ==
    IF ~isAnyDeviceActive(s) /\ s.now - s._lastActivity > DEFAULT_RESET_PERIOD
    THEN resetInactive(s)
    ELSE s

\* the for loop of checkForInactiveDevices from index i on
RECURSIVE InactiveFrom(_, _)
InactiveFrom(s, i) ==
    IF i >= s._networkDevicesNumber THEN s
    ELSE IF isInactive(s._networkDevices[i], s.now)
    THEN InactiveFrom(
             removeNetworkDevices(
                 Invoke(s, "inactiveDevice", s._networkDevices[i], 0), i),
             i + 1)
    ELSE InactiveFrom(s, i + 1)

\* the pass that looks at the first device only
checkForInactiveDevices_first(s) ==
    IF s._networkDevicesNumber > 0 /\ isInactive(s._networkDevices[0], s.now)
       /\ s._networkDevices[0].index = 0 /\ s._networkDevicesNumber > 1
    THEN removeNetworkDevices(
             Invoke(s, "inactiveDevice", s._networkDevices[0], 0), 0)
    ELSE s

\* void checkForInactiveDevices()
checkForInactiveDevices(s) == InactiveFrom(s, 0)

\* void timerTick()
timerTick(s) ==
    LET s1 ==
            IF s._networkDevicesNumber > 0 /\ s.counterForBlink # 0
            THEN IF s._type = TAG
                 THEN transmitPoll(
                          [s EXCEPT !._networkDevices =
                              [i \in 0..MAX_DEVICES |->
                                  IF i < s._networkDevicesNumber
                                  THEN [s._networkDevices[i] EXCEPT
                                            !.expectedMsgId = POLL_ACK]
                                  ELSE s._networkDevices[i]]])
                 ELSE s
            ELSE IF s.counterForBlink = 0
            THEN checkForInactiveDevices(
                     IF s._type = TAG THEN transmitBlink(s) ELSE s)
            ELSE s
    IN [s1 EXCEPT !.counterForBlink = IF @ + 1 > 20 THEN 0 ELSE @ + 1]

\* void processDeviceMessages()
\* (s1, the state after dequeueMessage, is a bound variable so that it is
\* evaluated once)
processDeviceMessages(s, env) ==
    CHOOSE r \in {IF s1.ret
                  THEN LET device == searchDistantDevice(
                                         s1, s1.item.sourceAddress)
                       IN IF device # -1
                          THEN processDeviceMessage(s1, device, s1.item.data,
                                                    s1.item.messageType, env)
                          ELSE s1
                  ELSE s1 : s1 \in {dequeueMessage(s)}} : TRUE

\* the for loop of handleDeviceTimeout from index i on
RECURSIVE TimeoutFrom(_, _)
TimeoutFrom(s, i) ==
    IF i >= s._networkDevicesNumber THEN s
    ELSE IF isProtocolTimedOut(s._networkDevices[i], s.now, PROTOCOL_TIMEOUT)
    THEN LET d == handleProtocolTimeout(s._networkDevices[i], s.now)
         IN TimeoutFrom(
                Invoke([s EXCEPT !._networkDevices[i] = d], "protocolError",
                       d, TIMEOUT_ERROR),
                i + 1)
    ELSE TimeoutFrom(s, i + 1)

\* void handleDeviceTimeout()
handleDeviceTimeout(s) == TimeoutFrom(s, 0)

\* loop() up to processDeviceMessages: checkForReset and the timer
\* (s1, the state after checkForReset, is a bound variable so that it is
\* evaluated once)
loopTimer(s) ==
    CHOOSE r \in {IF s1.now - s1.timer > s1._timerDelay
                  THEN timerTick([s1 EXCEPT !.timer = s1.now])
                  ELSE s1 : s1 \in {checkForReset(s)}} : TRUE

\* void loop()
\* (the state after each call is a bound variable so that it is evaluated
\* once)
loop(s, env) ==
    CHOOSE r \in {handleDeviceTimeout(s2) :
                     s2 \in {processDeviceMessages(s1, env) :
                                s1 \in {loopTimer(s)}}} : TRUE

(* ------------------------------------------------------------------ *)
(* Frames the peers send                                              *)
(* ------------------------------------------------------------------ *)
\* what the k-th anchor transmits to the tag
RangingInitFrame(k) ==
    generateLongMACFrame(AnchorShort(k), TagShort(1), RANGING_INIT)

PollAckFrame(k) == generateShortMACFrame(AnchorShort(k), TagShort(1), POLL_ACK)

RangeReportFrame(k) ==
    [generateShortMACFrame(AnchorShort(k), TagShort(1), RANGE_REPORT)
         EXCEPT !.range = AnchorRange(k)]

\* what the k-th tag transmits; anchors is the set of anchors it ranges with
BlinkFrame(k) == generateBlinkFrame(TagShort(k), TagShort(k))

PollFrame(k, anchors) ==
    [generateShortMACFrame(TagShort(k), BROADCAST, POLL) EXCEPT
         !.recs = PollRecords([i \in 0..1 |->
                                  [NoDevice EXCEPT
                                      !.shortAddress = AnchorShort(anchors[i + 1])]],
                              0, Len(anchors))]

RangeFrame(k, anchors) ==
    [generateShortMACFrame(TagShort(k), BROADCAST, RANGE) EXCEPT
         !.recs = RangeRecords([i \in 0..1 |->
                                   [NoDevice EXCEPT
                                       !.shortAddress = AnchorShort(anchors[i + 1])]],
                               0, Len(anchors))]

\* a RANGE of the k-th tag with one record, for the first anchor, that
\* carries three timestamps
RangeFrameAt(k, times) ==
    [generateShortMACFrame(TagShort(k), BROADCAST, RANGE) EXCEPT
         !.recs = RangeRecords([i \in 0..0 |->
                                   [NoDevice EXCEPT
                                       !.shortAddress = AnchorShort(1),
                                       !.timePollSent = times[1],
                                       !.timePollAckReceived = times[2],
                                       !.timeRangeSent = times[3]]],
                               0, 1)]

\* timestamps of a tag: of a round trip longer than the reply, and of a
\* POLL_ACK that arrived when the POLL left
RangeTimes == {<<1, 5, 6>>, <<1, 1, 21>>}

RangeFailedFrame(k) ==
    generateShortMACFrame(TagShort(k), AnchorShort(1), RANGE_FAILED)

\* a frame of none of the three shapes (first byte 0x61), whose bytes at the
\* source offset of a short-MAC frame are a short address
ShapelessFrame(src) ==
    [ZeroFrame EXCEPT !.fc1 = 97, !.fc2 = FC_2_SHORT, !.src = src]

\* frames a TAG with two anchors in range receives
TagFrames ==
    UNION {{PollAckFrame(k), RangeReportFrame(k)} : k \in 1..2}

\* frames the ANCHOR AnchorShort(1) receives from the first tag
AnchorFrames ==
    {BlinkFrame(1), PollFrame(1, <<1>>), PollFrame(1, <<2>>),
     RangeFrame(1, <<1>>), RangeFailedFrame(1)}

\* frames of two kinds and sources, for the queue alone
QueueFrames == {PollAckFrame(1), RangeReportFrame(2)}

\* discovery frames for the role of the device
DiscoveryFrames ==
    IF _type = TAG THEN {RangingInitFrame(k) : k \in 1..NumAnchors}
    ELSE {BlinkFrame(k) : k \in 1..2}

(* ------------------------------------------------------------------ *)
(* Actions                                                            *)
(* ------------------------------------------------------------------ *)
OpOf(name, frame, device) ==
    [name |-> name, frame |-> frame, device |-> device,
     messageType |-> detectMessageType(frame),
     src |-> decodeSource(frame, detectMessageType(frame)),
     stamp |-> 0]

\* the values a caller can read as the result of detectMessageType for a
\* frame: the message kinds and a value that is no kind, when the function
\* returned nothing
UndefinedResults(frame) ==
    IF detectMessageType(frame) = -1
    THEN {POLL, POLL_ACK, RANGE, RANGE_REPORT, RANGE_FAILED, BLINK,
          RANGING_INIT, FC_1}
    ELSE {-1}

\* an accepted item with the number of the frame it was made from
Stamped(it, n) ==
    [data |-> it.data, sourceAddress |-> it.sourceAddress,
     messageType |-> it.messageType, stamp |-> n]

\* the radio delivers one of the frames: handleReceived() runs
Received(frames) ==
    /\ ~overrun
    /\ receivedLeft > 0
    /\ \E frame \in frames : \E undef \in UndefinedResults(frame) :
          LET r == handleReceived(
                       [St EXCEPT !.rxTimestamp = rxTimestamp + 1], frame,
                       undef)
          IN /\ Commit([r EXCEPT !.op = OpOf("handleReceived", frame, -1)])
             /\ fifo' = IF r.ret
                        THEN Append(fifo, Stamped(r._messageQueue[St._queueTail],
                                                  r.rxTimestamp))
                        ELSE fifo
    /\ receivedLeft' = receivedLeft - 1
    /\ UNCHANGED <<callsLeft, clockLeft>>

\* the application calls processDeviceMessage(device, frame, kind) with the
\* device searchDistantDevice finds for the source of the frame
Dispatch(frames) ==
    /\ ~overrun
    /\ callsLeft > 0
    /\ \E frame \in frames :
          \E env \in Envs(St, detectMessageType(frame)) :
             LET device == searchDistantDevice(St, frame.src)
                 r == processDeviceMessage(St, device, frame,
                                           detectMessageType(frame), env)
             IN Commit([r EXCEPT
                           !.op = OpOf("processDeviceMessage", frame, device)])
    /\ callsLeft' = callsLeft - 1
    /\ UNCHANGED <<fifo, receivedLeft, clockLeft>>

\* the application calls loop()
Loop ==
    /\ ~overrun
    /\ LET s1 == loopTimer(St)
           d == dequeueMessage(s1)
           kind == IF d.ret THEN d.item.messageType ELSE -1
       IN /\ \E env \in Envs(s1, kind) : \E r \in {
                       [loop(St, env) EXCEPT
                           !.op = IF d.ret
                                  THEN [OpOf("loop", d.item.data,
                                             searchDistantDevice(
                                                 d, d.item.sourceAddress))
                                            EXCEPT !.messageType =
                                                       d.item.messageType,
                                                   !.stamp =
                                                IF fifo # <<>>
                                                THEN Head(fifo).stamp ELSE 0]
                                  ELSE [NoOp EXCEPT !.name = "loop"]]} :
                Commit(r)
          /\ fifo' = IF d.ret /\ fifo # <<>> THEN Tail(fifo) ELSE fifo
    /\ UNCHANGED <<callsLeft, receivedLeft, clockLeft>>

\* what DW1000.getTransmitTimestamp can read: a time of the radio's clock
\* later than the last reception
TxStamps(s) == {(s.rxTimestamp + k) % TIME_OVERFLOW : k \in 1..2}

\* the radio signals that the transmission of a frame is complete:
\* handleSent() runs
SentDone ==
    /\ ~overrun
    /\ txFrame # ZeroFrame
    /\ \E stamp \in TxStamps(St) : \E undef \in UndefinedResults(data) :
          Commit([handleSent([St EXCEPT !.txFrame = ZeroFrame], stamp, undef)
                     EXCEPT !.op = [OpOf("handleSent", txFrame, -1)
                                        EXCEPT !.stamp = stamp]])
    /\ UNCHANGED <<fifo, callsLeft, receivedLeft, clockLeft>>

\* millis() advances past the timer delay or past the inactivity time
Tick ==
    /\ ~overrun
    /\ clockLeft > 0
    /\ \E dt \in {INACTIVITY_TIME + 1} :
          Commit([St EXCEPT !.now = now + dt,
                            !.op = [NoOp EXCEPT !.name = "millis"]])
    /\ clockLeft' = clockLeft - 1
    /\ UNCHANGED <<fifo, callsLeft, receivedLeft>>

\* dequeueMessage(&item) alone
DequeueCall ==
    /\ LET r == dequeueMessage(St)
       IN /\ Commit([r EXCEPT !.op = [NoOp EXCEPT !.name = "dequeueMessage"]])
          /\ fifo' = IF r.ret /\ fifo # <<>> THEN Tail(fifo) ELSE fifo
    /\ UNCHANGED <<callsLeft, receivedLeft, clockLeft>>

\* the service context executes the next statement of dequeueMessage
\* r is the state the statement leaves
DequeueStep(pc, r) ==
    /\ dequeuePc = pc
    /\ Commit([r EXCEPT !.op = [NoOp EXCEPT
                                   !.name = IF r.dequeuePc = "idle"
                                            THEN "dequeueMessage"
                                            ELSE "statement"]])
    /\ fifo' = IF pc = "store" /\ fifo # <<>> THEN Tail(fifo) ELSE fifo
    /\ UNCHANGED <<callsLeft, receivedLeft, clockLeft>>

DequeueTest == DequeueStep("idle", dequeueTest(St))
DequeueCopy == DequeueStep("copy", dequeueCopy(St))
DequeueHead == DequeueStep("head", dequeueHead(St))
DequeueLoad == DequeueStep("load", dequeueLoad(St))
DequeueStore == DequeueStep("store", dequeueStore(St))

\* clearMessageQueue() alone
ClearCall ==
    /\ callsLeft > 0
    /\ Commit([clearMessageQueue(St) EXCEPT
                  !.op = [NoOp EXCEPT !.name = "clearMessageQueue"]])
    /\ fifo' = <<>>
    /\ callsLeft' = callsLeft - 1
    /\ UNCHANGED <<receivedLeft, clockLeft>>

(* ------------------------------------------------------------------ *)
(* Specifications                                                     *)
(* ------------------------------------------------------------------ *)
\* the message queue: frames arrive, the queue is drained and cleared
QueueReceived == Received(QueueFrames)

InitQueue ==
    /\ Started(TAG, TagShort(1))
    /\ callsLeft = 1
    /\ receivedLeft = MaxEnqueues
    /\ clockLeft = 0

QueueDispatch == Dispatch({RangingInitFrame(1)})

NextQueue == QueueReceived \/ DequeueCall \/ QueueDispatch \/ ClearCall

SpecQueue == InitQueue /\ [][NextQueue]_vars

\* the device table: discovery frames are dispatched to a TAG or an ANCHOR
Discover == Dispatch(DiscoveryFrames)

InitTable ==
    /\ \E role \in {TAG, ANCHOR} :
          Started(role, IF role = TAG THEN TagShort(1) ELSE AnchorShort(1))
    /\ callsLeft = MaxTableCalls
    /\ receivedLeft = 0
    /\ clockLeft = 0

NextTable == Discover

SpecTable == InitTable /\ [][NextTable]_vars

\* a TAG with two anchors in range
TagReceived == Received(TagFrames)

TagDispatch == Dispatch({RangingInitFrame(k) : k \in 1..2})

InitTag ==
    /\ Started(TAG, TagShort(1))
    /\ callsLeft = MaxCalls
    /\ receivedLeft = MaxReceived
    /\ clockLeft = MaxClockSteps

NextTag == TagReceived \/ TagDispatch \/ Loop \/ Tick

SpecTag == InitTag /\ [][NextTag]_vars

\* an ANCHOR with one tag in range
AnchorReceived == Received(AnchorFrames)

AnchorDispatch == Dispatch({BlinkFrame(1)})

InitAnchor ==
    /\ Started(ANCHOR, AnchorShort(1))
    /\ callsLeft = MaxCalls
    /\ receivedLeft = MaxReceived
    /\ clockLeft = MaxClockSteps

NextAnchor == AnchorReceived \/ AnchorDispatch \/ Loop \/ Tick

SpecAnchor == InitAnchor /\ [][NextAnchor]_vars

\* a device of either role whose one peer falls silent: the resets, the
\* protocol timeout and the pruning of loop()
ResetReceived1 ==
    Received(IF _type = TAG THEN {PollAckFrame(1)} ELSE {PollFrame(1, <<1>>)})

ResetDispatch ==
    Dispatch(IF _type = TAG THEN {RangingInitFrame(1)} ELSE {BlinkFrame(1)})

InitReset ==
    /\ \E role \in {TAG, ANCHOR} :
          Started(role, IF role = TAG THEN TagShort(1) ELSE AnchorShort(1))
    /\ callsLeft = 1
    /\ receivedLeft = ResetReceived
    /\ clockLeft = ResetClockSteps

NextReset == ResetReceived1 \/ ResetDispatch \/ Loop \/ Tick

SpecReset == InitReset /\ [][NextReset]_vars

\* a device of either role with one peer that receives frames of a known
\* shape and frames of none
IntakeReceived1 ==
    Received(IF _type = TAG
             THEN {PollAckFrame(1), ShapelessFrame(AnchorShort(1))}
             ELSE {PollFrame(1, <<1>>), ShapelessFrame(TagShort(1))})

IntakeDispatch ==
    Dispatch(IF _type = TAG THEN {RangingInitFrame(1)} ELSE {BlinkFrame(1)})

InitIntake ==
    /\ \E role \in {TAG, ANCHOR} :
          Started(role, IF role = TAG THEN TagShort(1) ELSE AnchorShort(1))
    /\ callsLeft = 1
    /\ receivedLeft = IntakeReceived
    /\ clockLeft = 0

NextIntake == IntakeReceived1 \/ IntakeDispatch \/ Loop

SpecIntake == InitIntake /\ [][NextIntake]_vars

\* the queue of a TAG whose service context is in dequeueMessage when the
\* radio's interrupt runs handleReceived
PreemptReceived1 == Received(QueueFrames)

InitPreempt ==
    /\ Started(TAG, TagShort(1))
    /\ callsLeft = 0
    /\ receivedLeft = PreemptReceived
    /\ clockLeft = 0

NextPreempt ==
    \/ PreemptReceived1
    \/ DequeueTest \/ DequeueCopy \/ DequeueHead \/ DequeueLoad
    \/ DequeueStore

SpecPreempt == InitPreempt /\ [][NextPreempt]_vars

\* a device of either role whose peers fall silent once they are in the
\* table, while the application keeps calling loop() and time advances:
\* loop() is called at least once between two advances of the clock
PruneDispatch ==
    /\ now = 0
    /\ Dispatch(IF _type = TAG THEN {RangingInitFrame(k) : k \in 1..2}
                ELSE {BlinkFrame(1)})

PruneTick ==
    /\ now - timer <= _timerDelay
    /\ Tick

InitPrune ==
    /\ \E role \in {TAG, ANCHOR} :
          Started(role, IF role = TAG THEN TagShort(1) ELSE AnchorShort(1))
    /\ callsLeft = 2
    /\ receivedLeft = 0
    /\ clockLeft = PruneClockSteps

NextPrune == PruneDispatch \/ Loop \/ PruneTick

SpecPrune ==
    InitPrune /\ [][NextPrune]_vars /\ WF_vars(Loop) /\ WF_vars(PruneTick)

\* devices the application adds: short addresses of anchors, two of them
\* with the same long address
IndexDevices ==
    {DW1000Device(IF k = 1 THEN AnchorShort(2) ELSE AnchorShort(k),
                  AnchorShort(k), 0) : k \in 1..NumAnchors}

\* the application calls the three functions of the table
IndexAddShort ==
    /\ ~overrun
    /\ callsLeft > 0
    /\ \E device \in IndexDevices : \E shortAddress \in BOOLEAN :
          Commit([addNetworkDevicesShort(St, device, shortAddress) EXCEPT
                     !.op = [NoOp EXCEPT !.name = "addNetworkDevices",
                                         !.src = device.shortAddress]])
    /\ callsLeft' = callsLeft - 1
    /\ UNCHANGED <<fifo, receivedLeft, clockLeft>>

IndexAdd ==
    /\ ~overrun
    /\ callsLeft > 0
    /\ \E device \in IndexDevices :
          Commit([addNetworkDevices(St, device) EXCEPT
                     !.op = [NoOp EXCEPT !.name = "addNetworkDevices",
                                         !.src = device.shortAddress]])
    /\ callsLeft' = callsLeft - 1
    /\ UNCHANGED <<fifo, receivedLeft, clockLeft>>

\* removeNetworkDevices(index) for a device of the table
IndexRemove ==
    /\ ~overrun
    /\ callsLeft > 0
    /\ \E index \in 0..(_networkDevicesNumber - 1) :
          Commit([removeNetworkDevices(St, index) EXCEPT
                     !.op = [NoOp EXCEPT !.name = "removeNetworkDevices",
                                         !.device = index]])
    /\ callsLeft' = callsLeft - 1
    /\ UNCHANGED <<fifo, receivedLeft, clockLeft>>

InitIndex ==
    /\ \E role \in {TAG, ANCHOR} :
          Started(role, IF role = TAG THEN TagShort(1) ELSE AnchorShort(1))
    /\ callsLeft = IndexCalls
    /\ receivedLeft = 0
    /\ clockLeft = 0

NextIndex == IndexAddShort \/ IndexAdd \/ IndexRemove

SpecIndex == InitIndex /\ [][NextIndex]_vars

\* timestamps of the 40-bit counter: the least, the greatest and two between
TwrStamps == {0, 1, TIME_OVERFLOW \div 2, TIME_OVERFLOW - 1}

\* an ANCHOR that holds the six timestamps of an exchange with a TAG
InitTwr ==
    /\ \E ps, pr, pas, par, rs, rr \in TwrStamps :
          StartedWith(ANCHOR, AnchorShort(1),
                      [i \in 0..MAX_DEVICES |->
                          IF i = 0
                          THEN [NoDevice EXCEPT
                                    !.shortAddress = TagShort(1),
                                    !.timePollSent = ps,
                                    !.timePollReceived = pr,
                                    !.timePollAckSent = pas,
                                    !.timePollAckReceived = par,
                                    !.timeRangeSent = rs,
                                    !.timeRangeReceived = rr]
                          ELSE NoDevice], 1)
    /\ callsLeft = TwrCalls
    /\ receivedLeft = 0
    /\ clockLeft = 0

\* computeRangeAsymmetric(device, &myTOF) and the distance taken from myTOF
TwrCompute ==
    /\ callsLeft > 0
    /\ \E quotient \in UndefinedQuotients :
          Commit([St EXCEPT
                     !._networkDevices[0].range =
                         getAsMeters(computeRangeAsymmetric(
                                         _networkDevices[0], quotient)),
                     !.op = [NoOp EXCEPT !.name = "computeRangeAsymmetric"]])
    /\ callsLeft' = callsLeft - 1
    /\ UNCHANGED <<fifo, receivedLeft, clockLeft>>

NextTwr == TwrCompute

SpecTwr == InitTwr /\ [][NextTwr]_vars

\* (timePollSent, timePollAckReceived) a TAG holds for a device: values
\* with one and with several non-zero bytes
CodecStamps == {<<0, 0>>, <<65791, 16777217>>}
\* the count byte of a broadcast frame that another device has built
CountBytes == {0, 7, 8, 27, 28, 255}
\* what the memory behind `data` holds
PastBytes == {0, 1}

\* a TAG with n devices in its table builds its broadcast frames
CodecTable(n, first, stamps) ==
    [i \in 0..MAX_DEVICES |->
        IF i < n
        THEN [NoDevice EXCEPT
                  !.shortAddress = AnchorShort(((first + i) % NumAnchors) + 1),
                  !.index = i,
                  !.timePollSent = stamps[i][1],
                  !.timePollAckReceived = stamps[i][2]]
        ELSE NoDevice]

InitCodec ==
    /\ \E n \in 0..MAX_DEVICES : \E first \in 1..NumAnchors :
          \E stamps \in [0..(n - 1) -> CodecStamps] :
             StartedWith(TAG, TagShort(1), CodecTable(n, first, stamps), n)
    /\ callsLeft = 0
    /\ receivedLeft = CodecReceived
    /\ clockLeft = 0

\* transmitPoll(nullptr) with the bytes it writes in `data`
CodecPoll ==
    /\ ~overrun
    /\ \E r \in {transmitPoll(St)} :
          Commit([r EXCEPT !.wire = [bytes |-> transmitPollBytes(St, wire.bytes),
                                     built |-> TRUE],
                           !.parsed = NoParse,
                           !.op = [NoOp EXCEPT !.name = "transmitPoll"]])
    /\ UNCHANGED <<fifo, callsLeft, receivedLeft, clockLeft>>

\* transmitRange(nullptr) with the bytes it writes in `data`
CodecRange ==
    /\ ~overrun
    /\ \E r \in {transmitRange(St)} :
          Commit([r EXCEPT !.wire = [bytes |-> transmitRangeBytes(r, wire.bytes),
                                     built |-> TRUE],
                           !.parsed = NoParse,
                           !.op = [NoOp EXCEPT !.name = "transmitRange"]])
    /\ UNCHANGED <<fifo, callsLeft, receivedLeft, clockLeft>>

\* a broadcast frame of another device whose count byte is c
CodecForeign ==
    /\ receivedLeft > 0
    /\ wire.bytes[SHORT_MAC_LEN] \in {POLL, RANGE}
    /\ \E c \in CountBytes :
          Commit([St EXCEPT !.wire = [bytes |-> [wire.bytes EXCEPT
                                                    ![SHORT_MAC_LEN + 1] = c],
                                      built |-> FALSE],
                            !.parsed = NoParse,
                            !.op = [NoOp EXCEPT !.name = "getData"]])
    /\ receivedLeft' = receivedLeft - 1
    /\ UNCHANGED <<fifo, callsLeft, clockLeft>>

\* the ANCHOR with short address me reads the records of the frame
CodecParse ==
    /\ wire.bytes[SHORT_MAC_LEN] \in {POLL, RANGE}
    /\ \E me \in {AnchorShort(1), TagShort(2)} : \E past \in PastBytes :
          \E failed \in BOOLEAN :
             Commit([St EXCEPT
                        !.parsed = IF wire.bytes[SHORT_MAC_LEN] = POLL
                                   THEN parsePoll(wire.bytes, me, past)
                                   ELSE parseRange(wire.bytes, me, past, failed),
                        !.op = [NoOp EXCEPT !.name = "handleDeviceProtocolState"]])
    /\ UNCHANGED <<fifo, callsLeft, receivedLeft, clockLeft>>

NextCodec == CodecPoll \/ CodecRange \/ CodecForeign \/ CodecParse

SpecCodec == InitCodec /\ [][NextCodec]_vars

\* a device of either role whose application keeps calling loop(): frames
\* of a device and discovery frames arrive, and every enabled loop() call is
\* eventually made
DrainReceived1 ==
    Received(IF _type = TAG
             THEN {PollAckFrame(1), RangingInitFrame(1)}
             ELSE {PollFrame(1, <<1>>), BlinkFrame(1)})

DrainDispatch ==
    Dispatch(IF _type = TAG THEN {RangingInitFrame(1)} ELSE {BlinkFrame(1)})

InitDrain ==
    /\ \E role \in {TAG, ANCHOR} :
          Started(role, IF role = TAG THEN TagShort(1) ELSE AnchorShort(1))
    /\ callsLeft = 1
    /\ receivedLeft = DrainReceived
    /\ clockLeft = 1

NextDrain == DrainReceived1 \/ DrainDispatch \/ Loop \/ Tick

SpecDrain == InitDrain /\ [][NextDrain]_vars /\ WF_vars(Loop)

\* a device of either role and the completions of its transmissions
SentReceived1 ==
    Received(IF _type = TAG
             THEN {PollAckFrame(k) : k \in 1..2}
             ELSE {PollFrame(1, <<1>>)}
                      \cup {RangeFrameAt(1, times) : times \in RangeTimes})

SentDispatch ==
    Dispatch(IF _type = TAG
             THEN {RangingInitFrame(k) : k \in 1..2}
             ELSE {BlinkFrame(1)})

InitSent ==
    /\ \E role \in {TAG, ANCHOR} :
          Started(role, IF role = TAG THEN TagShort(1) ELSE AnchorShort(1))
    /\ callsLeft = SentCalls
    /\ receivedLeft = SentReceived
    /\ clockLeft = MaxClockSteps

NextSent == SentReceived1 \/ SentDispatch \/ Loop \/ Tick \/ SentDone

SpecSent == InitSent /\ [][NextSent]_vars

(* ------------------------------------------------------------------ *)
(* What the last operation did                                        *)
(* ------------------------------------------------------------------ *)
\* invocations of handler h for the device of short address a
Fired(h, a) ==
    Cardinality({n \in 1..Len(calls) :
                    calls[n].handler = h /\ calls[n].device = a})

\* invocations of the protocol-error handler for a with an error code
FiredError(a, code) ==
    Cardinality({n \in 1..Len(calls) :
                    /\ calls[n].handler = "protocolError"
                    /\ calls[n].device = a
                    /\ calls[n].code = code})

\* frames of a kind transmitted to a short address
SentTo(kind, a) ==
    Cardinality({n \in 1..Len(sent) :
                    detectMessageType(sent[n]) = kind /\ sent[n].dst = a})

\* frames of a kind transmitted
Sent(kind) ==
    Cardinality({n \in 1..Len(sent) : detectMessageType(sent[n]) = kind})

\* a device of short address a is in the table
Known(a) ==
    \E i \in 0..(_networkDevicesNumber - 1) :
        _networkDevices[i].shortAddress = a

\* no two devices of the table have the same short address
UniqueShort ==
    \A i, j \in 0..(_networkDevicesNumber - 1) :
        i # j => _networkDevices[i].shortAddress # _networkDevices[j].shortAddress

\* the operation processed a message of a kind for a device of the table
Processed(name, kind) ==
    /\ op.name = name
    /\ op.messageType = kind
    /\ op.device # -1

(* ------------------------------------------------------------------ *)
(* The device table                                                   *)
(* ------------------------------------------------------------------ *)
\* C1: after any sequence of dispatched discovery frames the number of
\* devices never exceeds MAX_DEVICES, and a discovery frame from a new
\* device dispatched while the table holds MAX_DEVICES devices is refused by
\* the add and leaves the table as it was.
C1_TableBounded ==
    [][/\ _networkDevicesNumber' <= MAX_DEVICES
       /\ (/\ op'.name = "processDeviceMessage"
           /\ op'.device = -1
           /\ _networkDevicesNumber = MAX_DEVICES)
          => /\ ~ret'
             /\ UNCHANGED <<_networkDevices, _networkDevicesNumber>>]_vars

\* C7 as stated: no two devices of the table share a short address, a TAG
\* dispatching a RANGING_INIT from a short address of the table adds no
\* device and does not call the new-device handler, and the new-device
\* handler is called at most once for a short address over the whole run.
C7_NewPeerOncePerAddress ==
    [][/\ UniqueShort'
       /\ (/\ _type = TAG
           /\ Processed("processDeviceMessage", RANGING_INIT)')
          => /\ UNCHANGED _networkDevicesNumber
             /\ Fired("newDevice", op.src)' = 0
       /\ \A a \in Addresses : counts'["newDevice"][a] <= 1]_vars

\* C7 amended: no two devices of the table share a short address; a TAG
\* dispatching a RANGING_INIT from a short address of the table adds no
\* device and does not call the new-device handler; the new-device handler
\* is called exactly once each time a short address enters the table, and
\* only then.
C7_NewPeerOncePerEntry ==
    [][/\ UniqueShort'
       /\ (/\ _type = TAG
           /\ Processed("processDeviceMessage", RANGING_INIT)')
          => /\ UNCHANGED _networkDevicesNumber
             /\ Fired("newDevice", op.src)' = 0
       /\ \A a \in Addresses :
             /\ (~Known(a) /\ Known(a)') => Fired("newDevice", a)' = 1
             /\ (Known(a) \/ ~Known(a)') => Fired("newDevice", a)' = 0
             /\ counts'["newDevice"][a] =
                    counts["newDevice"][a] + Fired("newDevice", a)']_vars

\* a RANGING_INIT from an anchor of the table was dispatched and refused
C7_Witness ==
    /\ _type = TAG
    /\ Processed("processDeviceMessage", RANGING_INIT)
    /\ ~ret
    /\ _networkDevicesNumber = 1
    /\ counts["newDevice"][op.src] = 1
    /\ calls = <<>>

(* ------------------------------------------------------------------ *)
(* The message queue                                                  *)
(* ------------------------------------------------------------------ *)
\* C5: a dequeueMessage call returns true exactly when an accepted item has
\* not been returned yet, and then returns the oldest such item, with the
\* kind, the source short address and the frame it was enqueued with.
C5_Fifo ==
    [][op'.name = "dequeueMessage"
       => /\ ret' <=> (fifo # <<>>)
          /\ ret' => /\ item'.messageType = Head(fifo).messageType
                     /\ item'.sourceAddress = Head(fifo).sourceAddress
                     /\ item'.data = Head(fifo).data]_vars

\* a dequeue returned an item after the ring wrapped around, with items of
\* both kinds behind it
C5_Witness ==
    /\ op.name = "dequeueMessage"
    /\ ret
    /\ _queueTail < _queueHead
    /\ Len(fifo) >= 2
    /\ item.messageType # fifo[1].messageType
    /\ fifo[1].messageType # fifo[2].messageType

\* C6: the queue never holds more than MESSAGE_QUEUE_SIZE items; a frame
\* that arrives when the queue is full is refused by enqueueMessage, and the
\* head, the tail, the count, every stored item and every device of the
\* table stay as they were.
C6_QueueBounded ==
    [][/\ _queueCount' <= MESSAGE_QUEUE_SIZE
       /\ (op'.name = "handleReceived" /\ _queueCount = MESSAGE_QUEUE_SIZE)
          => /\ ~ret'
             /\ UNCHANGED <<_queueHead, _queueTail, _queueCount,
                            _messageQueue, _networkDevices,
                            _networkDevicesNumber, fifo>>]_vars

\* a frame arrived at a full queue of a device with one known peer
C6_Witness ==
    /\ op.name = "handleReceived"
    /\ ~ret
    /\ _queueCount = MESSAGE_QUEUE_SIZE
    /\ _networkDevicesNumber = 1

(* ------------------------------------------------------------------ *)
(* The TAG                                                            *)
(* ------------------------------------------------------------------ *)
\* a TAG with two anchors, after its first broadcast POLL and after the
\* POLL_ACK of both anchors was processed, in either order
BothAcked ==
    /\ _type = TAG
    /\ _networkDevicesNumber = 2
    /\ counterForBlink = 2
    /\ \A i \in 0..1 :
          /\ _networkDevices[i].protocolState = PROTOCOL_POLL_ACK_SENT
          /\ ~_networkDevices[i].protocolFailed
          /\ ~isProtocolTimedOut(_networkDevices[i], now, PROTOCOL_TIMEOUT)

\* C3: on a TAG with two anchors, after one broadcast POLL and the POLL_ACK
\* of both anchors, the RANGE_REPORT of either anchor calls the
\* range-complete handler once for that anchor, calls no protocol-error
\* handler and leaves that anchor's device IDLE.
C3_DualAnchorRound ==
    [][(/\ BothAcked
        /\ Processed("loop", RANGE_REPORT)'
        /\ UNCHANGED counterForBlink)
       => /\ Fired("rangeComplete", op.src)' = 1
          /\ Fired("protocolError", op.src)' = 0
          /\ _networkDevices'[op'.device].protocolState = PROTOCOL_IDLE]_vars

\* C4: the range the range-complete handler sees for a RANGE_REPORT that
\* loop() takes from the queue is the range carried in the frame of that
\* RANGE_REPORT, whatever was received or transmitted since that frame
\* arrived.
C4_RangeFromMessage ==
    [][(_type = TAG /\ Processed("loop", RANGE_REPORT)')
       => \A n \in 1..Len(calls') :
             calls'[n].handler = "rangeComplete"
             => calls'[n].range = op'.frame.range]_vars

\* C8: for a RANGE_REPORT a TAG processes for a device of its table, the
\* range-complete handler or the protocol-error handler is called for that
\* device, once for the message, and never both of them.
C8_OneOutcome ==
    [][(_type = TAG /\ Processed("loop", RANGE_REPORT)')
       => /\ Fired("rangeComplete", op.src)'
                + FiredError(op.src, RANGE_REPORT)' = 1
          /\ \/ Fired("rangeComplete", op.src)' = 0
             \/ Fired("protocolError", op.src)' = 0]_vars

\* a RANGE_REPORT was refused for one anchor after the round of the other
\* anchor had completed
C8_Witness ==
    /\ _type = TAG
    /\ Processed("loop", RANGE_REPORT)
    /\ _networkDevicesNumber = 2
    /\ FiredError(op.src, RANGE_REPORT) = 1
    /\ \E i \in 0..1 :
          /\ _networkDevices[i].shortAddress # op.src
          /\ _networkDevices[i].protocolState = PROTOCOL_IDLE
          /\ _networkDevices[i].range = AnchorRange(2)

(* ------------------------------------------------------------------ *)
(* The ANCHOR                                                         *)
(* ------------------------------------------------------------------ *)
\* C2: a discovery frame from a device that is not in the table, taken
\* from the queue by loop() on an empty table, creates the device: the
\* table then holds one device, the ANCHOR has transmitted one RANGING_INIT
\* and called the blink handler once (the TAG the new-device handler).
C2_DiscoveryByLoop ==
    [][(/\ op'.name = "loop"
        /\ op'.messageType = IF _type = ANCHOR THEN BLINK ELSE RANGING_INIT
        /\ _networkDevicesNumber = 0)
       => /\ _networkDevicesNumber' = 1
          /\ Fired(IF _type = ANCHOR THEN "blinkDevice" ELSE "newDevice",
                   op.src)' = 1
          /\ _type = ANCHOR => Sent(RANGING_INIT)' = 1]_vars

\* the tag of the ANCHOR is in POLL_SENT and a RANGE is expected from it
ExpectingRange ==
    /\ _type = ANCHOR
    /\ _networkDevicesNumber = 1
    /\ _networkDevices[0].protocolState = PROTOCOL_POLL_SENT
    /\ _networkDevices[0].expectedMsgId = RANGE
    /\ ~isProtocolTimedOut(_networkDevices[0], now, PROTOCOL_TIMEOUT)

\* C9: on an ANCHOR whose tag is in POLL_SENT with RANGE expected, a
\* RANGE_FAILED from the tag calls the protocol-error handler with code 255,
\* sets the failed flag of the device and puts the device in FAILED.
C9_RangeFailedInPollSent ==
    [][(/\ ExpectingRange
        /\ Processed("loop", RANGE_FAILED)'
        /\ UNCHANGED counterForBlink)
       => /\ FiredError(op.src, RANGE_FAILED)' = 1
          /\ _networkDevices'[0].protocolFailed
          /\ _networkDevices'[0].protocolState = PROTOCOL_FAILED]_vars

\* C10: on an ANCHOR, whatever the state, the failed flag and the expected
\* message of the device, a broadcast POLL of its tag that holds a record
\* for the ANCHOR leaves the device in POLL_SENT, not failed, with RANGE
\* expected, and one POLL_ACK is transmitted to the tag.
C10_PollRestarts ==
    [][(/\ _type = ANCHOR
        /\ Processed("loop", POLL)'
        /\ \E k \in 1..Len(op'.frame.recs) :
              op'.frame.recs[k].addr = _currentShortAddress)
       => /\ _networkDevices'[op'.device].protocolState = PROTOCOL_POLL_SENT
          /\ ~_networkDevices'[op'.device].protocolFailed
          /\ _networkDevices'[op'.device].expectedMsgId = RANGE
          /\ SentTo(POLL_ACK, op.src)' = 1]_vars

(* ------------------------------------------------------------------ *)
(* Timeouts, pruning and resets                                       *)
(* ------------------------------------------------------------------ *)
\* the device of the table with short address a
DeviceOf(a) ==
    _networkDevices[CHOOSE i \in 0..(_networkDevicesNumber - 1) :
                        _networkDevices[i].shortAddress = a]

\* C11: when a device is in POLL_SENT, nothing from it is queued and its
\* protocol activity is older than the protocol timeout, one loop() call
\* calls the protocol-error handler for it once with code -1 and leaves it
\* in the table, IDLE.
C11_PeerTimeout ==
    [][\A a \in Addresses :
          (/\ Known(a)
           /\ DeviceOf(a).protocolState = PROTOCOL_POLL_SENT
           /\ isProtocolTimedOut(DeviceOf(a), now, PROTOCOL_TIMEOUT)
           /\ _queueCount = 0
           /\ op'.name = "loop")
          => /\ FiredError(a, TIMEOUT_ERROR)' = 1
             /\ Known(a)'
             /\ DeviceOf(a)'.protocolState = PROTOCOL_IDLE]_vars

\* C12: when loop() runs checkForInactiveDevices, every device that was
\* inactive at that moment is out of the table afterwards and the
\* inactive-device handler was called once for it, also when two inactive
\* devices are in adjacent slots.
C12_PruneAll ==
    [][(/\ op'.name = "loop"
        /\ now - timer > _timerDelay
        /\ counterForBlink = 0)
       => \A a \in Addresses :
             (Known(a) /\ isInactive(DeviceOf(a), now))
             => /\ ~Known(a)'
                /\ Fired("inactiveDevice", a)' = 1]_vars

(* ------------------------------------------------------------------ *)
(* The protocol states of a device                                    *)
(* ------------------------------------------------------------------ *)
\* the states a device may go to from a state on a message of a kind, along
\* the edges of the protocol; empty when no edge leaves the state on the kind
ListedTargets(role, from, kind) ==
    IF role = ANCHOR /\ from = PROTOCOL_IDLE /\ kind = POLL
    THEN {PROTOCOL_POLL_SENT}
    ELSE IF role = ANCHOR /\ from = PROTOCOL_POLL_SENT /\ kind = RANGE
    THEN {PROTOCOL_RANGE_SENT, PROTOCOL_RANGE_REPORT_SENT, PROTOCOL_FAILED}
    ELSE IF role = TAG /\ from = PROTOCOL_IDLE /\ kind = POLL_ACK
    THEN {PROTOCOL_POLL_ACK_SENT}
    ELSE IF role = TAG /\ from = PROTOCOL_POLL_ACK_SENT /\ kind = RANGE_REPORT
    THEN {PROTOCOL_IDLE}
    ELSE {}

\* C13: a message that loop() processes for a device either takes the
\* device along an edge of the protocol (or leaves it where it is, when an
\* edge leaves its state on that kind), or, when no edge leaves its state on
\* that kind, sets its failed flag and puts it in FAILED.
C13_ListedEdges ==
    [][\A a \in Addresses :
          (/\ Known(a)
           /\ ~isProtocolTimedOut(DeviceOf(a), now, PROTOCOL_TIMEOUT)
           /\ op'.name = "loop"
           /\ op'.device # -1
           /\ op'.src = a
           /\ Known(a)')
          => IF ListedTargets(_type, DeviceOf(a).protocolState,
                              op'.messageType) # {}
             THEN DeviceOf(a)'.protocolState \in
                      ListedTargets(_type, DeviceOf(a).protocolState,
                                    op'.messageType)
                      \cup {DeviceOf(a).protocolState}
             ELSE /\ DeviceOf(a)'.protocolFailed
                  /\ DeviceOf(a)'.protocolState = PROTOCOL_FAILED]_vars

\* C14: when a RANGE that loop() processes takes a device of the ANCHOR to
\* RANGE_REPORT_SENT, the receive timestamp stored for the RANGE is the one
\* of that RANGE frame, not the one of a frame received after it.
C14_FreshTimestamps ==
    [][(/\ _type = ANCHOR
        /\ Processed("loop", RANGE)'
        /\ _networkDevices'[op'.device].protocolState =
               PROTOCOL_RANGE_REPORT_SENT)
       => _networkDevices'[op'.device].timeRangeReceived = op'.stamp]_vars

(* ------------------------------------------------------------------ *)
(* The reset of an idle device                                        *)
(* ------------------------------------------------------------------ *)
\* calls of receiver() by the last operation
Rearmed ==
    Cardinality({n \in 1..Len(calls) : calls[n].handler = "receiver"})

\* nothing is queued, no device has an active protocol and the last
\* activity is older than the reset period
IdlePastReset ==
    /\ _queueCount = 0
    /\ \A i \in 0..(_networkDevicesNumber - 1) :
          ~isProtocolActive(_networkDevices[i])
    /\ now - _lastActivity > DEFAULT_RESET_PERIOD

C16_OverflowReported ==
    [][(op'.name = "handleReceived" /\ ~ret')
       => FiredError(0, -2)' = 1]_vars

(* ------------------------------------------------------------------ *)
(* The table of an ANCHOR                                             *)
(* ------------------------------------------------------------------ *)
\* C17: the table of an ANCHOR never holds more than one device; a BLINK
\* dispatched from a tag that is not in the table leaves that tag alone in
\* the table, in slot 0, and one RANGING_INIT is transmitted; a BLINK
\* dispatched from the tag of the table changes nothing, calls no handler
\* and transmits nothing.
C17_AnchorOnePeer ==
    [][_type = ANCHOR
       => /\ _networkDevicesNumber' <= 1
          /\ \A a \in Addresses :
                (/\ op'.name = "processDeviceMessage"
                 /\ op'.messageType = BLINK
                 /\ op'.src = a)
                => IF Known(a)
                   THEN /\ ~ret'
                        /\ UNCHANGED <<_networkDevices, _networkDevicesNumber,
                                       data, _lastActivity,
                                       _lastSentToShortAddress>>
                        /\ sent' = <<>>
                        /\ calls' = <<>>
                   ELSE /\ ret'
                        /\ _networkDevicesNumber' = 1
                        /\ _networkDevices'[0].shortAddress = a
                        /\ _networkDevices'[0].index = 0
                        /\ Sent(RANGING_INIT)' = 1
                        /\ Fired("blinkDevice", a)' = 1]_vars

\* a BLINK of the tag of the table was refused after the table had held
\* the other tag and had been replaced
C17_Witness ==
    /\ _type = ANCHOR
    /\ op.name = "processDeviceMessage"
    /\ op.messageType = BLINK
    /\ ~ret
    /\ _networkDevicesNumber = 1
    /\ _networkDevices[0].shortAddress = op.src
    /\ \A k \in 1..2 : counts["blinkDevice"][TagShort(k)] >= 1

(* ------------------------------------------------------------------ *)
(* The RANGE on the ANCHOR                                            *)
(* ------------------------------------------------------------------ *)
\* the frame holds a record for this device
HasRecordForMe(frame) ==
    \E k \in 1..Len(frame.recs) : frame.recs[k].addr = _currentShortAddress

\* C18: on an ANCHOR, a RANGE with a record for the ANCHOR that loop()
\* processes leaves POLL expected and has one of two outcomes: the device is
\* not failed, one RANGE_REPORT was transmitted, the device is in
\* RANGE_REPORT_SENT and the range-complete handler was called once; or the
\* device is failed, one RANGE_FAILED was transmitted, the device is in
\* FAILED and the range-complete handler was not called.
C18_RangeOutcome ==
    [][(/\ _type = ANCHOR
        /\ Processed("loop", RANGE)'
        /\ HasRecordForMe(op'.frame))
       => /\ _networkDevices'[op'.device].expectedMsgId = POLL
          /\ \/ /\ ~_networkDevices'[op'.device].protocolFailed
                /\ SentTo(RANGE_REPORT, op.src)' = 1
                /\ Sent(RANGE_FAILED)' = 0
                /\ _networkDevices'[op'.device].protocolState =
                       PROTOCOL_RANGE_REPORT_SENT
                /\ Fired("rangeComplete", op.src)' = 1
             \/ /\ _networkDevices'[op'.device].protocolFailed
                /\ SentTo(RANGE_FAILED, op.src)' = 1
                /\ Sent(RANGE_REPORT)' = 0
                /\ _networkDevices'[op'.device].protocolState =
                       PROTOCOL_FAILED
                /\ Fired("rangeComplete", op.src)' = 0]_vars

\* C19: on an ANCHOR whose tag is in POLL_SENT with RANGE expected, after
\* loop() has processed a RANGE of the tag with a record for the ANCHOR the
\* device is in RANGE_SENT.
C19_RangeSent ==
    [][(/\ ExpectingRange
        /\ Processed("loop", RANGE)'
        /\ HasRecordForMe(op'.frame))
       => _networkDevices'[0].protocolState = PROTOCOL_RANGE_SENT]_vars

(* ------------------------------------------------------------------ *)
(* Unexpected messages on the TAG                                     *)
(* ------------------------------------------------------------------ *)
\* C20: on a TAG, a message of a known device that loop() processes and
\* whose kind is not the expected message of the device sets the failed
\* flag, makes POLL_ACK the expected message and calls the protocol-error
\* handler once, with the kind; the state, the range, the activity and the
\* timestamps of the device stay as they were, the range-complete handler
\* is not called and nothing is transmitted.  The loop() call is one in
\* which the timer does not fire and the device has not timed out.
C20_TagUnexpected ==
    [][\A a \in Addresses :
          (/\ _type = TAG
           /\ Known(a)
           /\ ~(now - timer > _timerDelay)
           /\ ~isProtocolTimedOut(DeviceOf(a), now, PROTOCOL_TIMEOUT)
           /\ op'.name = "loop"
           /\ op'.device # -1
           /\ op'.src = a
           /\ op'.messageType # DeviceOf(a).expectedMsgId)
          => /\ DeviceOf(a)' = [DeviceOf(a) EXCEPT
                                    !.protocolFailed = TRUE,
                                    !.expectedMsgId = POLL_ACK]
             /\ FiredError(a, op.messageType)' = 1
             /\ Fired("protocolError", a)' = 1
             /\ Fired("rangeComplete", a)' = 0
             /\ sent' = <<>>]_vars

\* a RANGE_REPORT was refused for an anchor that had acknowledged the POLL
\* and from which a POLL_ACK was expected: the anchor is still in
\* POLL_ACK_SENT
C20_Witness ==
    /\ _type = TAG
    /\ Processed("loop", RANGE_REPORT)
    /\ FiredError(op.src, RANGE_REPORT) = 1
    /\ sent = <<>>
    /\ Known(op.src)
    /\ DeviceOf(op.src).protocolState = PROTOCOL_POLL_ACK_SENT
    /\ DeviceOf(op.src).protocolFailed
    /\ DeviceOf(op.src).expectedMsgId = POLL_ACK

(* ------------------------------------------------------------------ *)
(* The round of the TAG                                               *)
(* ------------------------------------------------------------------ *)
\* C21: on a TAG, a RANGE_REPORT that loop() processes and that completes a
\* range leaves the device IDLE with POLL_ACK expected; and a RANGE_REPORT
\* processed for a device that is IDLE, in a loop() call in which no POLL is
\* broadcast, does not complete a range.
C21_ReportClosesRound ==
    [][\A a \in Addresses :
          (/\ _type = TAG
           /\ Known(a)
           /\ Processed("loop", RANGE_REPORT)'
           /\ op'.src = a
           /\ Known(a)')
          => /\ Fired("rangeComplete", a)' = 1
                => /\ DeviceOf(a)'.protocolState = PROTOCOL_IDLE
                   /\ DeviceOf(a)'.expectedMsgId = POLL_ACK
             /\ (/\ DeviceOf(a).protocolState = PROTOCOL_IDLE
                 /\ ~(now - timer > _timerDelay))
                => Fired("rangeComplete", a)' = 0]_vars

\* C22: on a TAG, when loop() processes the expected POLL_ACK of the device
\* in the last slot of the table, RANGE_REPORT becomes the expected message
\* of every device of the table and one broadcast RANGE is transmitted.
C22_AllExpectReport ==
    [][(/\ _type = TAG
        /\ Processed("loop", POLL_ACK)'
        /\ op'.device = _networkDevicesNumber' - 1
        /\ FiredError(op.src, POLL_ACK)' = 0)
       => /\ \A i \in 0..(_networkDevicesNumber' - 1) :
                _networkDevices'[i].expectedMsgId = RANGE_REPORT
          /\ SentTo(RANGE, BROADCAST)' = 1]_vars

\* C23: a loop() call of a TAG transmits a RANGE only when the POLL_ACK of
\* every device of the table has been processed: after the call every device
\* of the table is in POLL_ACK_SENT.  No device has timed out before the
\* call.
C23_RangeAfterAllAcks ==
    [][(/\ _type = TAG
        /\ op'.name = "loop"
        /\ \A i \in 0..(_networkDevicesNumber - 1) :
              ~isProtocolTimedOut(_networkDevices[i], now, PROTOCOL_TIMEOUT)
        /\ Sent(RANGE)' >= 1)
       => \A i \in 0..(_networkDevicesNumber' - 1) :
             _networkDevices'[i].protocolState = PROTOCOL_POLL_ACK_SENT]_vars

\* C24: a loop() call of a TAG in which the timer fires and nothing is
\* queued transmits exactly one frame: a BLINK when the table is empty or
\* the blink counter is 0, otherwise a broadcast POLL with one record per
\* device of the table.
C24_OneFramePerTick ==
    [][(/\ _type = TAG
        /\ op'.name = "loop"
        /\ now - timer > _timerDelay
        /\ _queueCount = 0)
       => /\ Len(sent') = 1
          /\ IF _networkDevicesNumber = 0 \/ counterForBlink = 0
             THEN Sent(BLINK)' = 1
             ELSE /\ SentTo(POLL, BROADCAST)' = 1
                  /\ Len(sent'[1].recs) = _networkDevicesNumber]_vars

(* ------------------------------------------------------------------ *)
(* Frames of no known shape                                           *)
(* ------------------------------------------------------------------ *)
\* C25: a received frame that has none of the three shapes is not put in
\* the queue, changes no device and calls no handler; and no loop() call
\* takes such a frame from the queue.
C25_ShapelessDropped ==
    [][/\ (op'.name = "handleReceived" /\ detectMessageType(op'.frame) = -1)
          => /\ UNCHANGED <<_queueCount, _queueTail, _messageQueue,
                            _networkDevices, _networkDevicesNumber>>
             /\ calls' = <<>>
       /\ op'.name = "loop" /\ op'.frame # ZeroFrame
          => detectMessageType(op'.frame) # -1]_vars

(* ------------------------------------------------------------------ *)
(* The range computation of the ANCHOR                                *)
(* ------------------------------------------------------------------ *)
\* C26: on an ANCHOR, when loop() has processed the RANGE a device was
\* expected to send, with a record for the ANCHOR and still in the buffer,
\* and the six timestamps of the device give a zero denominator or a
\* negative time of flight, one RANGE_FAILED and no RANGE_REPORT was
\* transmitted, the device is in FAILED and the range-complete handler was
\* not called.
C26_InvalidMathFails ==
    [][(/\ _type = ANCHOR
        /\ Processed("loop", RANGE)'
        /\ HasRecordForMe(op'.frame)
        /\ data = op'.frame
        /\ _networkDevices[op'.device].shortAddress = op'.src
        /\ _networkDevices[op'.device].expectedMsgId = RANGE
        /\ \/ TwrDenominator(_networkDevices'[op'.device]) = 0
           \/ computeRangeAsymmetric(_networkDevices'[op'.device], 0) < 0)
       => /\ SentTo(RANGE_FAILED, op.src)' = 1
          /\ Sent(RANGE_REPORT)' = 0
          /\ _networkDevices'[op'.device].protocolState = PROTOCOL_FAILED
          /\ Fired("rangeComplete", op.src)' = 0]_vars

(* ------------------------------------------------------------------ *)
(* Transmit timestamps of the TAG                                     *)
(* ------------------------------------------------------------------ *)
\* C28: on a TAG, when handleSent() has run for the completion of a
\* broadcast POLL, timePollSent of every device of the table is the
\* transmit timestamp the call read, and for a broadcast RANGE
\* timeRangeSent is, whether or not a frame was received since the
\* transmission was started.
C28_BroadcastStamps ==
    [][(/\ _type = TAG
        /\ op'.name = "handleSent"
        /\ op'.frame.dst = BROADCAST
        /\ detectMessageType(op'.frame) \in {POLL, RANGE})
       => \A i \in 0..(_networkDevicesNumber' - 1) :
             IF detectMessageType(op'.frame) = POLL
             THEN _networkDevices'[i].timePollSent = op'.stamp
             ELSE _networkDevices'[i].timeRangeSent = op'.stamp]_vars

(* ------------------------------------------------------------------ *)
(* Messages of two devices                                            *)
(* ------------------------------------------------------------------ *)
MessageKinds == {POLL, POLL_ACK, RANGE, RANGE_REPORT, RANGE_FAILED}

\* protocol state and failed flag of the device in slot i
SubState(s, i) ==
    <<s._networkDevices[i].protocolState, s._networkDevices[i].protocolFailed>>

\* the states processDeviceMessage can leave for a message of a kind from
\* the device in slot i
After(s, i, kind) ==
    {processDeviceMessage(s, i, s.data, kind, env) : env \in Envs(s, kind)}

\* C27: for two devices of the table and a message of each, processing the
\* message of one device leaves the protocol state and the failed flag of
\* the other device as they were, and the protocol state and the failed
\* flag of both devices after the two messages are the same whichever is
\* processed first.
C27_PeerIsolation ==
    \A i, j \in Slots(St) : \A ka, kb \in MessageKinds :
        i # j
        => /\ \A a \in After(St, i, ka) : SubState(a, j) = SubState(St, j)
           /\ \A a \in After(St, i, ka) : \A ab \in After(a, j, kb) :
              \A b \in After(St, j, kb) : \A ba \in After(b, i, ka) :
                 /\ SubState(ab, i) = SubState(ba, i)
                 /\ SubState(ab, j) = SubState(ba, j)

\* loop() processed the POLL_ACK of the second of two anchors of a TAG
\* while the first was waiting after its POLL_ACK
C27_Witness ==
    /\ _type = TAG
    /\ _networkDevicesNumber = 2
    /\ Processed("loop", POLL_ACK)
    /\ op.device = 1
    /\ \A i \in 0..1 :
          /\ _networkDevices[i].protocolState = PROTOCOL_POLL_ACK_SENT
          /\ ~_networkDevices[i].protocolFailed

(* ------------------------------------------------------------------ *)
(* The queue under preemption                                         *)
(* ------------------------------------------------------------------ *)
\* C29: when handleReceived can run between any two statements of
\* dequeueMessage, _queueCount stays within 0..MESSAGE_QUEUE_SIZE, outside
\* dequeueMessage it is the number of items that were accepted and not yet
\* returned, and every dequeueMessage that returns true returns the oldest
\* of those items.
C29_QueueConsistent ==
    [][/\ _queueCount' \in 0..MESSAGE_QUEUE_SIZE
       /\ dequeuePc' = "idle" => _queueCount' = Len(fifo')
       /\ (op'.name = "dequeueMessage" /\ ret')
          => /\ fifo # <<>>
             /\ Stamped(item', Head(fifo).stamp) = Head(fifo)]_vars

(* ------------------------------------------------------------------ *)
(* The reset and active devices                                       *)
(* ------------------------------------------------------------------ *)
\* C30: a loop() call in which resetInactive() ran (the radio was put back
\* in receive, or the activity was noted with nothing queued) started in a
\* state where no device of the table had an active protocol.
C30_ResetOnlyIdle ==
    [][(/\ op'.name = "loop"
        /\ \/ Rearmed' > 0
           \/ _queueCount = 0 /\ _lastActivity' # _lastActivity)
       => \A i \in 0..(_networkDevicesNumber - 1) :
             ~isProtocolActive(_networkDevices[i])]_vars

\* a loop() call past the reset period left the ANCHOR as it was, without
\* a reset, because its tag was in POLL_SENT
C30_Withheld ==
    /\ _type = ANCHOR
    /\ op.name = "loop"
    /\ op.frame = ZeroFrame
    /\ Rearmed = 0
    /\ now - _lastActivity > DEFAULT_RESET_PERIOD
    /\ _networkDevicesNumber = 1
    /\ _networkDevices[0].protocolState = PROTOCOL_POLL_SENT

\* resetInactive() ran on a TAG whose anchor had no active protocol
C30_Witness ==
    /\ _type = TAG
    /\ op.name = "loop"
    /\ op.frame = ZeroFrame
    /\ _lastActivity = now
    /\ now > DEFAULT_RESET_PERIOD
    /\ _networkDevicesNumber = 1
    /\ ~isProtocolActive(_networkDevices[0])

(* ------------------------------------------------------------------ *)
(* Draining the queue                                                 *)
(* ------------------------------------------------------------------ *)
\* the accepted item made from frame number n is still in the queue
Queued(n) == \E k \in 1..Len(fifo) : fifo[k].stamp = n

\* every accepted item is eventually taken from the queue by a loop() call,
\* a loop() call takes at most one item, the oldest, and the queue is
\* eventually empty for good
C31_Drained ==
    /\ \A n \in 1..DrainReceived :
          Queued(n) ~> (op.name = "loop" /\ op.stamp = n /\ ~Queued(n))
    /\ <>[](_queueCount = 0 /\ fifo = <<>>)
    /\ [][op'.name = "loop"
          => IF _queueCount = 0
             THEN op'.frame = ZeroFrame /\ _queueCount' = 0
             ELSE /\ fifo # <<>>
                  /\ op'.frame = Head(fifo).data
                  /\ op'.stamp = Head(fifo).stamp
                  /\ _queueCount' = _queueCount - 1]_vars

\* C31: when loop() keeps being called, every accepted item is eventually
\* taken from the queue, once, by a loop() call that takes no other item,
\* and dispatched: a message of a device of the table goes to the state
\* machine of that device and a discovery frame of a device that is not in
\* the table puts the device in the table; the queue is eventually empty for
\* good.
C31_DrainedAndDispatched ==
    /\ C31_Drained
    /\ [][\A a \in Addresses :
             (/\ op'.name = "loop"
              /\ op'.src = a
              /\ op'.messageType = IF _type = ANCHOR THEN BLINK
                                   ELSE RANGING_INIT)
             => Known(a)']_vars

(* ------------------------------------------------------------------ *)
(* The records of the broadcast frames                                *)
(* ------------------------------------------------------------------ *)
\* C32: the ANCHOR whose short address is that of device i of the table of
\* the TAG finds, in the bytes the TAG has built, the record of slot i: in a
\* POLL the reply time (2i+1)*DEFAULT_REPLY_DELAY_TIME, whole, which is also
\* what the TAG has stored for the device, and in a RANGE the three
\* timestamps the TAG holds for the device.
C32_RoundTrip ==
    (wire.built /\ parsed.kind \in {POLL, RANGE})
    => \A i \in 0..(_networkDevicesNumber - 1) :
          _networkDevices[i].shortAddress = parsed.me
          => /\ parsed.found
             /\ parsed.slot = i
             /\ parsed.kind = POLL
                => /\ parsed.replyTime = (2 * i + 1) * DEFAULT_REPLY_DELAY_TIME
                   /\ parsed.replyTime = _networkDevices[i].replyDelayTimeUS
             /\ (parsed.kind = RANGE /\ ~parsed.failed)
                => parsed.times = <<_networkDevices[i].timePollSent,
                                    _networkDevices[i].timePollAckReceived,
                                    _networkDevices[i].timeRangeSent>>

C32_Witness ==
    /\ wire.built
    /\ parsed.kind = RANGE
    /\ parsed.found
    /\ ~parsed.failed
    /\ parsed.slot = MAX_DEVICES - 1
    /\ parsed.times[1] > 65535
    /\ parsed.times[3] > 0

C32_WitnessPoll ==
    /\ wire.built
    /\ parsed.kind = POLL
    /\ parsed.found
    /\ parsed.slot = MAX_DEVICES - 1

\* C36: whatever the count byte of the POLL or RANGE is, every offset of
\* `data` the ANCHOR reads while it goes through the records is below
\* LEN_DATA.
C36_ReadsInsideBuffer ==
    parsed.kind \in {POLL, RANGE} => parsed.top < LEN_DATA

\* the reads stay inside the buffer for the frames a TAG with at most
\* MAX_DEVICES devices builds
C36_BuiltReadsInside ==
    (wire.built /\ parsed.kind \in {POLL, RANGE}) => parsed.top < LEN_DATA

(* ------------------------------------------------------------------ *)
(* The intervals of the ranging arithmetic                            *)
(* ------------------------------------------------------------------ *)
\* a - b on the counter that wraps at TIME_OVERFLOW
SubMod(a, b) == (a - b) % TIME_OVERFLOW

\* C33: each of the four intervals computeRangeAsymmetric takes from the
\* timestamps of a device is the difference of its two timestamps modulo
\* TIME_OVERFLOW, a value from 0 to TIME_OVERFLOW - 1, also when the first
\* timestamp is the smaller one because the counter has wrapped.
C33_Intervals ==
    [][op'.name = "computeRangeAsymmetric"
       => LET d == _networkDevices[0]
          IN /\ round1(d) = SubMod(d.timePollAckReceived, d.timePollSent)
             /\ reply1(d) = SubMod(d.timePollAckSent, d.timePollReceived)
             /\ round2(d) = SubMod(d.timeRangeReceived, d.timePollAckSent)
             /\ reply2(d) = SubMod(d.timeRangeSent, d.timePollAckReceived)
             /\ {round1(d), reply1(d), round2(d), reply2(d)}
                    \subseteq 0..(TIME_OVERFLOW - 1)
             /\ TwrDenominator(d) # 0
                => _networkDevices'[0].range =
                       getAsMeters(Quot(round1(d) * round2(d)
                                            - reply1(d) * reply2(d),
                                        TwrDenominator(d)))]_vars

C33_Witness ==
    /\ op.name = "computeRangeAsymmetric"
    /\ _networkDevices[0].timePollAckReceived < _networkDevices[0].timePollSent
    /\ _networkDevices[0].timeRangeReceived < _networkDevices[0].timePollAckSent
    /\ _networkDevices[0].range > 0

(* ------------------------------------------------------------------ *)
(* Broadcast frames without a record for the ANCHOR                   *)
(* ------------------------------------------------------------------ *)
\* loop() takes a POLL or RANGE of a device of the table that holds no
\* record for this ANCHOR, and neither its timer, nor a reset, nor a
\* protocol timeout is due
NoRecordProcessed ==
    /\ _type = ANCHOR
    /\ op'.name = "loop"
    /\ op'.messageType \in {POLL, RANGE}
    /\ op'.device # -1
    /\ ~HasRecordForMe(op'.frame)
    /\ UNCHANGED <<counterForBlink, _networkDevicesNumber>>
    /\ now - _lastActivity <= DEFAULT_RESET_PERIOD
    /\ ~isProtocolTimedOut(_networkDevices[op'.device], now, PROTOCOL_TIMEOUT)

\* C34: on an ANCHOR, processing a POLL or RANGE that holds no record for
\* the ANCHOR leaves the record of the sender as it was, transmits no frame
\* and calls no handler.
C34_NoRecordNoEffect ==
    [][NoRecordProcessed
       => /\ _networkDevices'[op'.device] = _networkDevices[op'.device]
          /\ sent' = <<>>
          /\ calls' = <<>>]_vars

\* the same when `data` still holds the frame that is processed
C34_FreshNoEffect ==
    [][(NoRecordProcessed /\ data = op'.frame)
       => /\ _networkDevices'[op'.device] = _networkDevices[op'.device]
          /\ sent' = <<>>
          /\ calls' = <<>>]_vars

\* the same when `data` still holds the frame that is processed and the
\* frame is of the kind the sender is expected to send
C34_FreshExpectedNoEffect ==
    [][(/\ NoRecordProcessed
        /\ data = op'.frame
        /\ op'.messageType = _networkDevices[op'.device].expectedMsgId)
       => /\ _networkDevices'[op'.device] = _networkDevices[op'.device]
          /\ sent' = <<>>
          /\ calls' = <<>>]_vars

(* ------------------------------------------------------------------ *)
(* The index of a device                                              *)
(* ------------------------------------------------------------------ *)
\* C35: after any sequence of adds and of removals of devices of the table,
\* the device in slot i has index i, for every slot below the count, so that
\* when the table is not empty exactly one device has index count - 1.
C35_IndexIsSlot ==
    /\ \A i \in 0..(_networkDevicesNumber - 1) : _networkDevices[i].index = i
    /\ _networkDevicesNumber > 0
       => Cardinality({i \in 0..(_networkDevicesNumber - 1) :
                          _networkDevices[i].index = _networkDevicesNumber - 1})
              = 1

\* the first of three or more devices was removed and the others moved down
C35_Witness ==
    /\ op.name = "removeNetworkDevices"
    /\ op.device = 0
    /\ _networkDevicesNumber >= 2

(* ------------------------------------------------------------------ *)
(* Pruning of silent devices                                          *)
(* ------------------------------------------------------------------ *)
\* advances of the clock that are enough for two passes of
\* checkForInactiveDevices
PruneTicks == 2 * BLINK_PERIOD + 1

\* C37: a device of the table from which nothing is processed any more is
\* eventually out of the table, when loop() keeps being called and the clock
\* advances by at least PruneTicks timer periods; a device leaves the table
\* in a loop() call that calls the inactive-device handler for it once, and
\* the handler is called for no device that stays.
C37_SilentPeerPruned ==
    /\ \A a \in {AnchorShort(1), AnchorShort(2), TagShort(1)} :
          (Known(a) /\ clockLeft >= PruneTicks) ~> ~Known(a)
    /\ [][\A a \in Addresses :
             /\ (Known(a) /\ ~Known(a)') => Fired("inactiveDevice", a)' = 1
             /\ Fired("inactiveDevice", a)' > 0
                => /\ Known(a)
                   /\ ~Known(a)'
                   /\ Fired("inactiveDevice", a)' = 1]_vars

\* the second of two devices that fell silent together was passed over by
\* one pass and is removed by the next
C37_Witness ==
    /\ _type = TAG
    /\ op.name = "loop"
    /\ Fired("inactiveDevice", AnchorShort(2)) = 1
    /\ _networkDevicesNumber = 0
    /\ now > INACTIVITY_TIME + 1

(* ------------------------------------------------------------------ *)
(* The order of the broadcast frames of a TAG                          *)
(* ------------------------------------------------------------------ *)
\* C38: on a TAG, between two consecutive broadcast POLL transmissions at
\* most one broadcast RANGE is transmitted, whatever POLL_ACK and
\* RANGE_REPORT frames, duplicates included, are processed in between: no
\* broadcast RANGE follows a broadcast RANGE without a POLL between them.
C38_OneRangePerPoll ==
    _type = TAG =>
        ~(air[BROADCAST].prev = RANGE /\ air[BROADCAST].last = RANGE)

(* ------------------------------------------------------------------ *)
(* The order of the answers of an ANCHOR                               *)
(* ------------------------------------------------------------------ *)
\* C39: on an ANCHOR, every RANGE_REPORT transmitted to a peer is preceded
\* by a POLL_ACK to that peer with no other RANGE_REPORT or RANGE_FAILED to
\* that peer in between, and the operation that transmits a RANGE_REPORT to
\* a peer finds the peer's record answered by a POLL_ACK, not failed and
\* expecting RANGE, and transmits that one frame to it.
C39_ReportFollowsPollAck ==
    /\ [](_type = ANCHOR =>
             \A a \in Addresses :
                 air[a].last = RANGE_REPORT => air[a].prev = POLL_ACK)
    /\ [][_type = ANCHOR =>
             \A a \in Addresses :
                 SentTo(RANGE_REPORT, a)' > 0
                     => /\ air[a].last = POLL_ACK
                        /\ Known(a)
                        /\ DeviceOf(a).expectedMsgId = RANGE
                        /\ ~DeviceOf(a).protocolFailed
                        /\ SentTo(RANGE_REPORT, a)' = 1
                        /\ SentTo(POLL_ACK, a)' = 0
                        /\ SentTo(RANGE_FAILED, a)' = 0]_vars

\* loop() processed a RANGE and a RANGE_REPORT went to the tag after a
\* POLL_ACK
C39_Witness ==
    /\ _type = ANCHOR
    /\ SentTo(RANGE_REPORT, TagShort(1)) = 1
    /\ air[TagShort(1)] = [prev |-> POLL_ACK, last |-> RANGE_REPORT]
    /\ op.name = "loop" /\ op.messageType = RANGE

====
